---- MODULE Spec2Model ----
(***************************************************************************)
(* Circuit intermediate representation of zquantum.core.circuit:          *)
(* construction of a Circuit from pyquil / cirq / qiskit objects and from *)
(* dictionaries, equality, concatenation, evaluation, serialization and   *)
(* export to pyquil, together with the pyquil <-> cirq converters.        *)
(*                                                                         *)
(* Python objects are records.  Objects whose identity matters carry an   *)
(* object id: a Qubit has `oid`, a qubit list has `qubits_id`, and the     *)
(* `info` dictionary of a Circuit lives in the heap `infos` and is held   *)
(* by reference (its position in the heap).  An optional value is the     *)
(* empty sequence (absent) or a one-element sequence.                      *)
(***************************************************************************)
EXTENDS Integers, Sequences, FiniteSets, TLC

\* Longest native instruction stream / serialized gate list given to a constructor.
MaxInstr == 2
\* Most concatenations and evaluations applied in a row to one circuit.
MaxOps == 1

\* Longest data list a gate gives the export to qiskit.
MaxGateData == 6

\* Most children of an add or mul node handed to the expression tree builder.
MaxArgs == 3

\* most qubits of an ancilla register
MaxAncilla == 2

\* most rows and columns of a gate matrix
MaxDim == 8

VARIABLES circuit, imported, infos, nextOid, nops, last

vars == <<circuit, imported, infos, nextOid, nops, last>>

----------------------------------------------------------------------------
\* Generic helpers

SeqsUpTo(S, n) == UNION {[1..k -> S] : k \in 0..n}

Range(s) == {s[i] : i \in 1..Len(s)}

MinOf(S) == CHOOSE x \in S : \A y \in S : x <= y

MaxOf(S) == CHOOSE x \in S : \A y \in S : x >= y

RECURSIVE Flatten(_)
Flatten(ss) == IF ss = <<>> THEN <<>> ELSE Head(ss) \o Flatten(Tail(ss))

----------------------------------------------------------------------------
\* Gate parameters: a number, or a sympy symbol (sym # "").

Num(v) == [sym |-> "", val |-> v]

Sym(s) == [sym |-> s, val |-> 0]

IsSymbolic(p) == p.sym # ""

----------------------------------------------------------------------------
\* Gate catalogs (zquantum.core.circuit._gateset)

COMMON_GATES ==
    {"X", "Y", "Z", "H", "S", "T", "CNOT", "CZ", "SWAP", "RX", "RY", "RZ",
     "CPHASE", "MEASURE", "BARRIER", "I"}

UNIQUE_GATES == {"ZXZ", "RH", "XX", "YY", "ZZ", "U1ex", "U2ex"}

----------------------------------------------------------------------------
\* Qubit (zquantum.core.circuit._qubit)

NoKey == <<>>

QubitInfo(label, type, key, qreg, num) ==
    [label |-> label, QubitType |-> type, QubitKey |-> key, qreg |-> qreg, num |-> num]

\* Qubit(index): a new Qubit object with the default info
Qubit(index, oid) ==
    [oid |-> oid, index |-> index, info |-> QubitInfo("none", "", NoKey, "", -1)]

Qubit_from_pyquil(pyquil_qubit, oid) ==
    [oid |-> oid, index |-> pyquil_qubit.index,
     info |-> QubitInfo("pyquil", "", NoKey, "", -1)]

\* str(qubit): the index and the info of the qubit
Qubit_str(q) == <<q.index, q.info>>

Qubit_to_dict(q) == [index |-> q.index, info |-> q.info]

Qubit_from_dict(d, oid) == [oid |-> oid, index |-> d.index, info |-> d.info]

----------------------------------------------------------------------------
\* Gate (zquantum.core.circuit._gate)

Gate(name, qubits, params) == [name |-> name, qubits |-> qubits, params |-> params]

GateIndices(g) == [i \in 1..Len(g.qubits) |-> g.qubits[i].index]

\* Gate.__eq__: same name, same qubit indices in order, same parameters
Gate_eq(g1, g2) ==
    /\ g1.name = g2.name
    /\ GateIndices(g1) = GateIndices(g2)
    /\ g1.params = g2.params

Gate_from_pyquil(pyquil_gate, qubits) == Gate(pyquil_gate.name, qubits, pyquil_gate.params)

\* gate.symbolic_params: the symbols among the parameters, in order, once each
RECURSIVE Gate_symbolic_params(_, _)
Gate_symbolic_params(params, acc) ==
    IF params = <<>> THEN acc
    ELSE LET p == Head(params) IN
         Gate_symbolic_params(Tail(params),
             IF IsSymbolic(p) /\ p.sym \notin Range(acc) THEN Append(acc, p.sym) ELSE acc)

----------------------------------------------------------------------------
\* Circuit

\* Circuit(name=name): lines 53-61; info is the heap reference of a new dictionary
NewCircuit(name, infoRef, listId) ==
    [name |-> name, gates |-> <<>>, qubits |-> <<>>, qubits_id |-> listId, info |-> infoRef]

NewInfo == [label |-> "None"]

\* Result of a constructor or method: the status, the circuit (if one is returned),
\* the heap and the next free object id after the call.
Outcome(status, c, heap, oid) ==
    [status |-> status, circuit |-> c, infos |-> heap, nextOid |-> oid]

----------------------------------------------------------------------------
\* Circuit.from_pyquil

\* qubit_in_list of from_pyquil: first seen pyquil qubit with the same index
pyquil_qubit_in_list(qubit, qubitlist) ==
    LET hits == {i \in 1..Len(qubitlist) : qubit.index = qubitlist[i].index} IN
    IF hits = {} THEN [output |-> FALSE, out_index |-> -1]
    ELSE [output |-> TRUE, out_index |-> qubitlist[MinOf(hits)].index]

\* the loop `for q in _qubits: if <match>: _old_Qubit = q; break`: the first match
\* rebinds _old_Qubit, no match leaves the binding of an earlier iteration
FirstMatch(qubits, Match(_), old) ==
    LET hits == {i \in 1..Len(qubits) : Match(qubits[i])} IN
    IF hits = {} THEN old ELSE <<qubits[MinOf(hits)]>>

\* loop state of an importer
LoopState(oid) ==
    [status |-> "ok", seen |-> <<>>, qubits |-> <<>>, gates |-> <<>>,
     gatequbits |-> <<>>, old |-> <<>>, oid |-> oid]

RECURSIVE pyquil_gate_qubits(_, _)
pyquil_gate_qubits(operands, st) ==
    IF operands = <<>> \/ st.status # "ok" THEN st
    ELSE
      LET qubit == Head(operands)
          found == pyquil_qubit_in_list(qubit, st.seen)
      IN
      IF ~found.output
      THEN LET new == Qubit_from_pyquil(qubit, st.oid) IN
           pyquil_gate_qubits(Tail(operands),
               [st EXCEPT !.seen = Append(@, qubit), !.qubits = Append(@, new),
                          !.gatequbits = Append(@, new), !.oid = @ + 1])
      ELSE LET old == FirstMatch(st.qubits, LAMBDA q : q.index = found.out_index, st.old) IN
           IF old = <<>> THEN [st EXCEPT !.status = "UnboundLocalError"]
           ELSE pyquil_gate_qubits(Tail(operands),
                    [st EXCEPT !.old = old, !.gatequbits = Append(@, old[1])])

RECURSIVE pyquil_loop(_, _)
pyquil_loop(program, st) ==
    IF program = <<>> \/ st.status # "ok" THEN st
    ELSE
      LET gate == Head(program)
          s1 == pyquil_gate_qubits(gate.qubits, [st EXCEPT !.gatequbits = <<>>])
      IN
      IF s1.status # "ok" THEN s1
      ELSE pyquil_loop(Tail(program),
               [s1 EXCEPT !.gates = Append(@, Gate_from_pyquil(gate, s1.gatequbits))])

\* an import that reads the program from its last instruction to its first
from_pyquil_backwards(c, pyquil_circuit, heap, oid) ==
    LET heap1 == [heap EXCEPT ![c.info].label = "pyquil"]
        n == Len(pyquil_circuit)
    IN
    IF n = 0 THEN Outcome("ok", <<c>>, heap1, oid)
    ELSE
      LET st == pyquil_loop([k \in 1..n |-> pyquil_circuit[n + 1 - k]], LoopState(oid + 1)) IN
      IF st.status # "ok" THEN Outcome(st.status, <<>>, heap1, st.oid)
      ELSE Outcome("ok",
               <<[c EXCEPT !.gates = st.gates, !.qubits = st.qubits, !.qubits_id = oid]>>,
               heap1, st.oid)

\* self.from_pyquil(pyquil_circuit) on the circuit c
from_pyquil(c, pyquil_circuit, heap, oid) ==
    LET heap1 == [heap EXCEPT ![c.info].label = "pyquil"] IN
    IF Len(pyquil_circuit) = 0 THEN Outcome("ok", <<c>>, heap1, oid)
    ELSE
      LET st == pyquil_loop(pyquil_circuit, LoopState(oid + 1)) IN
      IF st.status # "ok" THEN Outcome(st.status, <<>>, heap1, st.oid)
      ELSE Outcome("ok",
               <<[c EXCEPT !.gates = st.gates, !.qubits = st.qubits, !.qubits_id = oid]>>,
               heap1, st.oid)

----------------------------------------------------------------------------
\* cirq and pyquil objects

LineQubit(x) == [kind |-> "LineQubit", x |-> x, row |-> -1, col |-> -1]

GridQubit(row, col) == [kind |-> "GridQubit", x |-> -1, row |-> row, col |-> col]

\* a cirq gate: its class, its exponent and its global shift, both in quarters
\* (exponent 4 is a full power, 2 the square root; shift -2 is -0.5)
CirqGate(type, exponent) == [type |-> type, exponent |-> exponent, global_shift |-> 0]

CirqOp(gate, qubits) == [gate |-> gate, qubits |-> qubits]

cirq_X == CirqGate("XPowGate", 4)

cirq_Z == CirqGate("ZPowGate", 4)

cirq_H == CirqGate("HPowGate", 4)

cirq_CNOT == CirqGate("CNotPowGate", 4)

\* cirq.rz(rads): a ZPowGate of exponent rads / pi and global shift -0.5
cirq_rz(rads) == [type |-> "ZPowGate", exponent |-> rads, global_shift |-> -2]

PyquilQubit(i) == [index |-> i]

\* a pyquil gate instruction; angles are in units of pi / 4
PyquilGate(name, params, indices) ==
    [name |-> name, params |-> params,
     qubits |-> [k \in 1..Len(indices) |-> PyquilQubit(indices[k])]]

----------------------------------------------------------------------------
\* Circuit.from_cirq

IsGridQubit(q) == q.kind = "GridQubit"

IsLineQubit(q) == q.kind = "LineQubit"

\* Qubit.from_cirq(cirq_qubit, index): the info records the kind of the cirq qubit
\* and its key, (row, col) of a grid qubit and x of a line qubit
Qubit_from_cirq(cirq_qubit, index, oid) ==
    [oid |-> oid, index |-> index,
     info |-> QubitInfo("cirq", cirq_qubit.kind,
                        IF IsGridQubit(cirq_qubit) THEN <<cirq_qubit.row, cirq_qubit.col>>
                        ELSE <<cirq_qubit.x>>, "", -1)]

\* Gate.from_cirq(op, qubits): canonical name of the cirq gate, exponent as angle
Gate_from_cirq(op, qubits) ==
    LET g == op.gate IN
    IF g.type = "XPowGate" /\ g.exponent = 4 THEN Gate("X", qubits, <<>>)
    ELSE IF g.type = "CNotPowGate" THEN Gate("CNOT", qubits, <<>>)
    ELSE IF g.type = "XPowGate" THEN Gate("RX", qubits, <<Num(g.exponent)>>)
    ELSE Gate(g.type, qubits, <<Num(g.exponent)>>)

\* qubit_in_list of from_cirq, lines 456-481, from position k of qubitlist on
RECURSIVE cirq_qubit_in_list(_, _, _)
cirq_qubit_in_list(qubit, qubitlist, k) ==
    IF k > Len(qubitlist) THEN [status |-> "ok", output |-> FALSE, out_index |-> NoKey]
    ELSE
      LET q == qubitlist[k] IN
      IF IsGridQubit(qubit) /\ IsGridQubit(q)
      THEN IF qubit.row = q.row /\ qubit.col = q.col
           THEN [status |-> "ok", output |-> TRUE, out_index |-> <<q.row, q.col>>]
           ELSE cirq_qubit_in_list(qubit, qubitlist, k + 1)
      ELSE IF IsLineQubit(qubit) /\ IsLineQubit(qubit)
      THEN \* q.x: a grid qubit has no attribute x
           IF ~IsLineQubit(q)
           THEN [status |-> "AttributeError", output |-> FALSE, out_index |-> NoKey]
           ELSE IF qubit.x = q.x
           THEN [status |-> "ok", output |-> TRUE, out_index |-> <<q.x>>]
           ELSE cirq_qubit_in_list(qubit, qubitlist, k + 1)
      ELSE [status |-> "TypeError", output |-> FALSE, out_index |-> NoKey]

RECURSIVE cirq_gate_qubits(_, _)
cirq_gate_qubits(operands, st) ==
    IF operands = <<>> \/ st.status # "ok" THEN st
    ELSE
      LET qubit == Head(operands)
          found == cirq_qubit_in_list(qubit, st.seen, 1)
      IN
      IF found.status # "ok" THEN [st EXCEPT !.status = found.status]
      ELSE IF ~found.output
      THEN \* Qubit.from_cirq(qubit, qubit.x): a grid qubit has no attribute x
           IF ~IsLineQubit(qubit) THEN [st EXCEPT !.status = "AttributeError"]
           ELSE LET new == Qubit_from_cirq(qubit, qubit.x, st.oid) IN
                cirq_gate_qubits(Tail(operands),
                    [st EXCEPT !.seen = Append(@, qubit), !.qubits = Append(@, new),
                               !.gatequbits = Append(@, new), !.oid = @ + 1])
      ELSE LET old == FirstMatch(st.qubits,
                          LAMBDA q : q.info.QubitKey = found.out_index, st.old) IN
           IF old = <<>> THEN [st EXCEPT !.status = "UnboundLocalError"]
           ELSE cirq_gate_qubits(Tail(operands),
                    [st EXCEPT !.old = old, !.gatequbits = Append(@, old[1])])

RECURSIVE cirq_ops_loop(_, _)
cirq_ops_loop(operations, st) ==
    IF operations = <<>> \/ st.status # "ok" THEN st
    ELSE
      LET op == Head(operations)
          s1 == cirq_gate_qubits(op.qubits, [st EXCEPT !.gatequbits = <<>>])
      IN
      IF s1.status # "ok" THEN s1
      ELSE cirq_ops_loop(Tail(operations),
               [s1 EXCEPT !.gates = Append(@, Gate_from_cirq(op, s1.gatequbits))])

RECURSIVE cirq_loop(_, _)
cirq_loop(moments, st) ==
    IF moments = <<>> \/ st.status # "ok" THEN st
    ELSE cirq_loop(Tail(moments), cirq_ops_loop(Head(moments), st))

RECURSIVE SumLen(_)
SumLen(ss) == IF ss = <<>> THEN 0 ELSE Len(Head(ss)) + SumLen(Tail(ss))

\* self.from_cirq(cirq_circuit) on the circuit c; cirq_circuit is its moments
from_cirq(c, cirq_circuit, heap, oid) ==
    LET heap1 == [heap EXCEPT ![c.info].label = "cirq"] IN
    IF Len(cirq_circuit) = 0 \/ SumLen(cirq_circuit) = 0 THEN Outcome("ok", <<c>>, heap1, oid)
    ELSE
      LET st == cirq_loop(cirq_circuit, LoopState(oid + 1)) IN
      IF st.status # "ok" THEN Outcome(st.status, <<>>, heap1, st.oid)
      ELSE Outcome("ok",
               <<[c EXCEPT !.gates = st.gates, !.qubits = st.qubits, !.qubits_id = oid]>>,
               heap1, st.oid)

----------------------------------------------------------------------------
\* Circuit.from_qiskit

\* Qubit.from_qiskit(qiskit_qubit, index): the info records the register and the
\* position of the qiskit qubit in its register
Qubit_from_qiskit(qiskit_qubit, index, oid) ==
    [oid |-> oid, index |-> index,
     info |-> QubitInfo("qiskit", "", NoKey, qiskit_qubit.register, qiskit_qubit.index)]

\* Gate.from_qiskit(instruction, qubits): None (the empty option) for an instruction
\* that has no canonical gate
Gate_from_qiskit(instruction, qubits) ==
    IF instruction.name = "barrier" THEN <<>>
    ELSE IF instruction.name = "x" THEN <<Gate("X", qubits, <<>>)>>
    ELSE IF instruction.name = "cx" THEN <<Gate("CNOT", qubits, <<>>)>>
    ELSE <<Gate(instruction.name, qubits, instruction.params)>>

\* qubit_in_list of from_qiskit: qiskit's Qubit equality is register and index
qiskit_qubit_in_list(qubit, qubitlist) ==
    \E i \in 1..Len(qubitlist) : qubit = qubitlist[i]

RECURSIVE qiskit_gate_qubits(_, _)
qiskit_gate_qubits(operands, st) ==
    IF operands = <<>> \/ st.status # "ok" THEN st
    ELSE
      LET qubit == Head(operands) IN
      IF ~qiskit_qubit_in_list(qubit, st.seen)
      THEN LET new == Qubit_from_qiskit(qubit, qubit.index, st.oid) IN
           qiskit_gate_qubits(Tail(operands),
               [st EXCEPT !.seen = Append(@, qubit), !.qubits = Append(@, new),
                          !.gatequbits = Append(@, new), !.oid = @ + 1])
      ELSE LET old == FirstMatch(st.qubits, LAMBDA q : q.info.num = qubit.index, st.old) IN
           IF old = <<>> THEN [st EXCEPT !.status = "UnboundLocalError"]
           ELSE qiskit_gate_qubits(Tail(operands),
                    [st EXCEPT !.old = old, !.gatequbits = Append(@, old[1])])

RECURSIVE qiskit_loop(_, _)
qiskit_loop(data, st) ==
    IF data = <<>> \/ st.status # "ok" THEN st
    ELSE
      LET gate_data == Head(data)
          s1 == qiskit_gate_qubits(gate_data[2], [st EXCEPT !.gatequbits = <<>>])
          zap_gate == Gate_from_qiskit(gate_data[1], s1.gatequbits)
      IN
      IF s1.status # "ok" THEN s1
      ELSE qiskit_loop(Tail(data),
               IF zap_gate # <<>> THEN [s1 EXCEPT !.gates = Append(@, zap_gate[1])] ELSE s1)

\* self.from_qiskit(qiskit_circuit) on the circuit c
from_qiskit(c, qiskit_circuit, heap, oid) ==
    LET heap1 == [heap EXCEPT ![c.info].label = "qiskit"]
        c1 == [c EXCEPT !.name = qiskit_circuit.name]
    IN
    IF Len(qiskit_circuit.data) = 0 THEN Outcome("ok", <<c1>>, heap1, oid)
    ELSE
      LET st == qiskit_loop(qiskit_circuit.data, LoopState(oid + 1)) IN
      IF st.status # "ok" THEN Outcome(st.status, <<>>, heap1, st.oid)
      ELSE Outcome("ok",
               <<[c1 EXCEPT !.gates = st.gates, !.qubits = st.qubits, !.qubits_id = oid]>>,
               heap1, st.oid)

----------------------------------------------------------------------------
\* Circuit.__init__, lines 43-79: the dispatch on the type of input_object

\* an input object: the name of its type and, for a program, a gate or a circuit,
\* what it holds
InputObject(type, value) == [type |-> type, value |-> value]

None == InputObject("NoneType", <<>>)

\* a constructor that takes an object of any other type for None
Circuit_init_ignores_type(input_object, name, heap, oid) ==
    LET c == NewCircuit(name, Len(heap) + 1, oid)
        h == Append(heap, NewInfo)
    IN
    IF input_object.type = "pyquil.Program"
    THEN from_pyquil(c, input_object.value, h, oid + 1)
    ELSE IF input_object.type = "pyquil.quilbase.Gate"
    THEN from_pyquil(c, <<input_object.value[1]>>, h, oid + 1)
    ELSE IF input_object.type = "cirq.Circuit"
    THEN from_cirq(c, input_object.value, h, oid + 1)
    ELSE IF input_object.type = "qiskit.QuantumCircuit"
    THEN from_qiskit(c, input_object.value[1], h, oid + 1)
    ELSE Outcome("ok", <<c>>, h, oid + 1)

Circuit_init(input_object, name, heap, oid) ==
    LET c == NewCircuit(name, Len(heap) + 1, oid)
        h == Append(heap, NewInfo)
    IN
    IF input_object.type = "pyquil.Program"
    THEN from_pyquil(c, input_object.value, h, oid + 1)
    ELSE IF input_object.type = "pyquil.quilbase.Gate"
    THEN \* converted_input = pyquil.Program(input_object)
         from_pyquil(c, <<input_object.value[1]>>, h, oid + 1)
    ELSE IF input_object.type = "cirq.Circuit"
    THEN from_cirq(c, input_object.value, h, oid + 1)
    ELSE IF input_object.type = "qiskit.QuantumCircuit"
    THEN from_qiskit(c, input_object.value[1], h, oid + 1)
    ELSE IF input_object = None
    THEN Outcome("ok", <<c>>, h, oid + 1)
    ELSE Outcome("TypeError", <<>>, h, oid + 1)

----------------------------------------------------------------------------
\* Serialization: Gate.to_dict / Gate.from_dict, Circuit.to_dict / Circuit.from_dict

SCHEMA_VERSION == "zapata-v1"

\* a serialized gate parameter: a number, the string form of a symbolic expression,
\* or (serialize_params false) the sympy object itself
Param_to_dict(p, serialize_params) ==
    IF ~IsSymbolic(p) THEN [form |-> "number", text |-> "", val |-> p.val]
    ELSE IF serialize_params THEN [form |-> "string", text |-> p.sym, val |-> 0]
    ELSE [form |-> "sympy", text |-> p.sym, val |-> 0]

\* numbers are kept, strings are parsed (sympify) into the expression they denote
Param_from_dict(d) ==
    IF d.form = "number" THEN Num(d.val) ELSE Sym(d.text)

Gate_to_dict(gate, serialize_params) ==
    [schema |-> SCHEMA_VERSION \o "-gate",
     name |-> gate.name,
     qubits |-> GateIndices(gate),
     params |-> [i \in 1..Len(gate.params) |-> Param_to_dict(gate.params[i], serialize_params)]]

\* Gate.from_dict(dictionary): the qubits are new Qubit objects, oid onwards
Gate_from_dict(d, oid) ==
    Gate(d.name,
         [i \in 1..Len(d.qubits) |-> Qubit(d.qubits[i], oid + i - 1)],
         [i \in 1..Len(d.params) |-> Param_from_dict(d.params[i])])

\* Circuit.to_dict, lines 268-299: the dictionary holds the info of the circuit itself
to_dict(c, serialize_gate_params) ==
    [schema |-> SCHEMA_VERSION \o "-circuit",
     name |-> c.name,
     gates |-> [i \in 1..Len(c.gates) |-> Gate_to_dict(c.gates[i], serialize_gate_params)],
     qubits |-> [i \in 1..Len(c.qubits) |-> Qubit_to_dict(c.qubits[i])],
     info |-> c.info]

RECURSIVE GatesFromDicts(_, _, _)
GatesFromDicts(ds, oid, acc) ==
    IF ds = <<>> THEN [gates |-> acc, oid |-> oid]
    ELSE GatesFromDicts(Tail(ds), oid + Len(Head(ds).qubits),
                        Append(acc, Gate_from_dict(Head(ds), oid)))

\* from_dict that leaves the name of the new circuit as the constructor made it
from_dict_default_name(dictionary, heap, oid) ==
    LET output == NewCircuit("Unnamed", dictionary.info, oid)
        gs == GatesFromDicts(dictionary.gates, oid + 1, <<>>)
        n == Len(dictionary.qubits)
    IN
    Outcome("ok",
        <<[output EXCEPT
             !.gates = gs.gates,
             !.qubits = [i \in 1..n |-> Qubit_from_dict(dictionary.qubits[i], gs.oid + i - 1)],
             !.info = dictionary.info]>>,
        heap, gs.oid + n)

\* Circuit.from_dict, lines 352-375
from_dict(dictionary, heap, oid) ==
    LET output == NewCircuit(dictionary.name, dictionary.info, oid)
        gs == GatesFromDicts(dictionary.gates, oid + 1, <<>>)
        n == Len(dictionary.qubits)
    IN
    Outcome("ok",
        <<[output EXCEPT
             !.gates = gs.gates,
             !.qubits = [i \in 1..n |-> Qubit_from_dict(dictionary.qubits[i], gs.oid + i - 1)],
             !.info = dictionary.info]>>,
        heap, gs.oid + n)

----------------------------------------------------------------------------
\* Circuit.symbolic_params, lines 92-107

\* a loop that puts the symbols of a gate before the symbols found so far
RECURSIVE symbolic_params_loop_newest_first(_, _)
symbolic_params_loop_newest_first(gates, acc) ==
    IF gates = <<>> THEN acc
    ELSE
      LET per_gate == Gate_symbolic_params(Head(gates).params, <<>>)
          fresh == SelectSeq(per_gate, LAMBDA p : p \notin Range(acc))
      IN symbolic_params_loop_newest_first(Tail(gates), fresh \o acc)

RECURSIVE symbolic_params_loop(_, _)
symbolic_params_loop(gates, acc) ==
    IF gates = <<>> THEN acc
    ELSE
      LET per_gate == Gate_symbolic_params(Head(gates).params, <<>>)
          fresh == SelectSeq(per_gate, LAMBDA p : p \notin Range(acc))
      IN symbolic_params_loop(Tail(gates), acc \o fresh)

symbolic_params(c) == symbolic_params_loop(c.gates, <<>>)

----------------------------------------------------------------------------
\* Circuit.__eq__, lines 109-125

RECURSIVE qubits_differ(_, _, _)
qubits_differ(qs1, qs2, i) ==
    IF i > Len(qs1) THEN FALSE
    ELSE IF Qubit_str(qs1[i]) # Qubit_str(qs2[i]) THEN TRUE
    ELSE qubits_differ(qs1, qs2, i + 1)

RECURSIVE gates_differ(_, _, _)
gates_differ(gs1, gs2, i) ==
    IF i > Len(gs1) THEN FALSE
    ELSE IF ~Gate_eq(gs1[i], gs2[i]) THEN TRUE
    ELSE gates_differ(gs1, gs2, i + 1)

\* a comparison that counts the gates and does not compare them
Circuit_eq_counts_gates(c, anotherCircuit) ==
    IF c.name # anotherCircuit.name THEN FALSE
    ELSE IF Len(c.qubits) # Len(anotherCircuit.qubits) THEN FALSE
    ELSE IF qubits_differ(c.qubits, anotherCircuit.qubits, 1) THEN FALSE
    ELSE IF Len(c.gates) # Len(anotherCircuit.gates) THEN FALSE
    ELSE TRUE

Circuit_eq(c, anotherCircuit) ==
    IF c.name # anotherCircuit.name THEN FALSE
    ELSE IF Len(c.qubits) # Len(anotherCircuit.qubits) THEN FALSE
    ELSE IF qubits_differ(c.qubits, anotherCircuit.qubits, 1) THEN FALSE
    ELSE IF Len(c.gates) # Len(anotherCircuit.gates) THEN FALSE
    ELSE IF gates_differ(c.gates, anotherCircuit.gates, 1) THEN FALSE
    ELSE TRUE

----------------------------------------------------------------------------
\* Circuit.__add__, lines 127-142

QubitIndexList(c) == [i \in 1..Len(c.qubits) |-> c.qubits[i].index]

\* set(...) of the qubit indices of both circuits
add_qubit_indices(c, other_circuit) ==
    Range(QubitIndexList(c) \o QubitIndexList(other_circuit))

\* the orders in which iteration may visit a set
Orders(S) == {o \in [1..Cardinality(S) -> S] : Range(o) = S}

\* a concatenation whose qubits are those of the right operand only
Circuit_add_overwrites_qubits(c, other_circuit, order, heap, oid) ==
    LET new_circuit == NewCircuit("Unnamed", Len(heap) + 1, oid)
        kept == SelectSeq(order, LAMBDA i : i \in Range(QubitIndexList(other_circuit)))
    IN
    Outcome("ok",
        <<[new_circuit EXCEPT
             !.qubits = [i \in 1..Len(kept) |-> Qubit(kept[i], oid + i)],
             !.gates = c.gates \o other_circuit.gates]>>,
        Append(heap, NewInfo), oid + Len(order) + 1)

\* c + other_circuit; order is the iteration order of the set of indices
Circuit_add(c, other_circuit, order, heap, oid) ==
    LET new_circuit == NewCircuit("Unnamed", Len(heap) + 1, oid) IN
    Outcome("ok",
        <<[new_circuit EXCEPT
             !.qubits = [i \in 1..Len(order) |-> Qubit(order[i], oid + i)],
             !.gates = c.gates \o other_circuit.gates]>>,
        Append(heap, NewInfo), oid + Len(order) + 1)

----------------------------------------------------------------------------
\* Circuit.evaluate, lines 149-179

MapSymbols(symbols_map) == {symbols_map[i][1] : i \in 1..Len(symbols_map)}

\* value of the first pair of the map for the symbol
MapValue(symbols_map, sym) ==
    symbols_map[MinOf({i \in 1..Len(symbols_map) : symbols_map[i][1] = sym})][2]

\* Gate.evaluate(symbols_map): a new Gate on the same qubits whose parameters have
\* the symbols of the map replaced by their values
Gate_evaluate(gate, symbols_map) ==
    Gate(gate.name, gate.qubits,
         [i \in 1..Len(gate.params) |->
            LET p == gate.params[i] IN
            IF IsSymbolic(p) /\ p.sym \in MapSymbols(symbols_map)
            THEN Num(MapValue(symbols_map, p.sym)) ELSE p])

\* a warning for every symbol of the circuit that the map leaves out
evaluate_warns_reversed(c, symbols_map) ==
    Cardinality(Range(symbolic_params(c)) \ MapSymbols(symbols_map)) > 0

\* the condition of the warning, lines 162-163
evaluate_warns(c, symbols_map) ==
    Cardinality(MapSymbols(symbols_map) \ Range(symbolic_params(c))) > 0

\* an evaluation that does not copy the name
evaluate_default_name(c, symbols_map, heap, oid) ==
    LET new_circuit == NewCircuit("Unnamed", Len(heap) + 1, oid) IN
    Outcome("ok",
        <<[new_circuit EXCEPT
             !.qubits = c.qubits,
             !.qubits_id = c.qubits_id,
             !.info = c.info,
             !.gates = [i \in 1..Len(c.gates) |-> Gate_evaluate(c.gates[i], symbols_map)]]>>,
        heap, oid)

\* an evaluation that gives the new circuit copies of the qubit list and of the
\* info dictionary
evaluate_copies_info(c, symbols_map, heap, oid) ==
    LET new_circuit == NewCircuit("Unnamed", Len(heap) + 1, oid) IN
    Outcome("ok",
        <<[new_circuit EXCEPT
             !.name = c.name,
             !.qubits = c.qubits,
             !.gates = [i \in 1..Len(c.gates) |-> Gate_evaluate(c.gates[i], symbols_map)]]>>,
        Append(heap, heap[c.info]), oid + 1)

\* the circuit made by type(self)() is given the name, the qubit list and the info
\* dictionary of c; the list and the dictionary it was made with are dropped
evaluate(c, symbols_map, heap, oid) ==
    LET new_circuit == NewCircuit("Unnamed", Len(heap) + 1, oid) IN
    Outcome("ok",
        <<[new_circuit EXCEPT
             !.name = c.name,
             !.qubits = c.qubits,
             !.qubits_id = c.qubits_id,
             !.info = c.info,
             !.gates = [i \in 1..Len(c.gates) |-> Gate_evaluate(c.gates[i], symbols_map)]]>>,
        heap, oid)

----------------------------------------------------------------------------
\* Export to pyquil: add_gate_to_pyquil_program, lines 829-992, Circuit.to_pyquil

\* a pyquil Program: its gate definitions and its instructions
Program(defined_gates, instructions) ==
    [defined_gates |-> defined_gates, instructions |-> instructions]

EmptyProgram == Program(<<>>, <<>>)

\* pyquil.quilbase.DefGate(name, matrix, parameters)
DefGate(name, matrix, parameters) ==
    [name |-> name, matrix |-> matrix, parameters |-> parameters]

\* Program + DefGate appends the definition, also when the name is defined already
AddDefinition(prog, def) ==
    Program(Append(prog.defined_gates, def), prog.instructions)

\* Program + instruction
AddInstruction(prog, instr) ==
    Program(prog.defined_gates, Append(prog.instructions, instr))

\* Gate.to_pyquil(): the pyquil gate of the same name on the qubit indices
Gate_to_pyquil(gate) ==
    [name |-> gate.name, params |-> gate.params,
     qubits |-> [k \in 1..Len(gate.qubits) |-> [index |-> gate.qubits[k].index]]]

\* DEF(params...)(qubit indices...): an application of a defined gate
Application(name, params, indices) ==
    [name |-> name, params |-> params,
     qubits |-> [k \in 1..Len(indices) |-> [index |-> indices[k]]]]

Returned(prog) == [status |-> "ok", program |-> <<prog>>]

ReturnedNone == [status |-> "ok", program |-> <<>>]

Raised(error) == [status |-> error, program |-> <<>>]

gate_already_defined(prog, name) ==
    \E i \in 1..Len(prog.defined_gates) : prog.defined_gates[i].name = name

\* branches ZXZ, RH, XX, YY, ZZ: the definition is added, then the application
define_and_apply(prog, gate, matrix, parameters, nparams, nqubits) ==
    Returned(AddInstruction(
        AddDefinition(prog, DefGate(gate.name, matrix, parameters)),
        Application(gate.name, SubSeq(gate.params, 1, nparams),
                    SubSeq(GateIndices(gate), 1, nqubits))))

\* a U1ex branch that adds the definition whether or not it is there
U1ex_branch_always_defines(prog, gate) ==
    Returned(AddDefinition(
        AddInstruction(prog, Application("U1ex", SubSeq(gate.params, 1, 2),
                                         SubSeq(GateIndices(gate), 1, 2))),
        DefGate("U1ex", "u1ex_unitary", <<"alpha", "beta">>)))

U1ex_branch(prog, gate) ==
    LET u1ex_def == DefGate("U1ex", "u1ex_unitary", <<"alpha", "beta">>)
        output_program ==
            AddInstruction(prog, Application("U1ex", SubSeq(gate.params, 1, 2),
                                             SubSeq(GateIndices(gate), 1, 2)))
    IN
    IF ~gate_already_defined(prog, "U1ex")
    THEN Returned(AddDefinition(output_program, u1ex_def))
    ELSE Returned(output_program)

\* line 984 adds u1ex_def, a local variable that has no value in this branch
U2ex_branch(prog, gate) ==
    LET output_program ==
            AddInstruction(prog, Application("U2ex", SubSeq(gate.params, 1, 1),
                                             SubSeq(GateIndices(gate), 1, 2)))
    IN
    IF ~gate_already_defined(prog, "U2ex")
    THEN Raised("UnboundLocalError")
    ELSE Returned(output_program)

\* pyquil_program is an optional Program: None + x raises TypeError
add_gate_to_pyquil_program(pyquil_program, gate) ==
    LET isNone == pyquil_program = <<>>
        prog == pyquil_program[1]
    IN
    IF gate.name \in COMMON_GATES
    THEN IF isNone THEN Raised("TypeError")
         ELSE Returned(AddInstruction(prog, Gate_to_pyquil(gate)))
    ELSE IF gate.name \in UNIQUE_GATES
    THEN IF gate.name = "ZXZ"
         THEN IF isNone THEN Raised("TypeError")
              ELSE define_and_apply(prog, gate, "zxz_unitary", <<"beta", "gamma">>, 2, 1)
         ELSE IF gate.name = "RH"
         THEN IF isNone THEN Raised("TypeError")
              ELSE define_and_apply(prog, gate, "rh_unitary", <<"beta">>, 1, 1)
         ELSE IF gate.name = "XX"
         THEN IF isNone THEN Raised("TypeError")
              ELSE define_and_apply(prog, gate, "xx_unitary", <<"beta">>, 1, 2)
         ELSE IF gate.name = "YY"
         THEN IF isNone THEN Raised("TypeError")
              ELSE define_and_apply(prog, gate, "yy_unitary", <<"beta">>, 1, 2)
         ELSE IF gate.name = "ZZ"
         THEN IF isNone THEN Raised("TypeError")
              ELSE define_and_apply(prog, gate, "zz_unitary", <<"beta">>, 1, 2)
         ELSE IF gate.name = "U1ex"
         THEN IF isNone THEN Raised("TypeError") ELSE U1ex_branch(prog, gate)
         ELSE IF gate.name = "U2ex"
         THEN IF isNone THEN Raised("TypeError") ELSE U2ex_branch(prog, gate)
         ELSE IF gate.name = "MEASURE"
         THEN IF isNone THEN Raised("AttributeError")
              ELSE Returned(AddInstruction(
                       AddInstruction(prog,
                           [name |-> "DECLARE", params |-> <<>>,
                            qubits |-> <<[index |-> gate.qubits[1].index]>>]),
                       [name |-> "MEASURE", params |-> <<>>,
                        qubits |-> <<[index |-> gate.qubits[1].index]>>]))
         ELSE IF gate.name = "BARRIER"
         THEN [status |-> "ok", program |-> pyquil_program]
         ELSE ReturnedNone
    ELSE ReturnedNone

RECURSIVE to_pyquil_loop(_, _)
to_pyquil_loop(gates, output) ==
    IF gates = <<>> \/ output.status # "ok" THEN output
    ELSE to_pyquil_loop(Tail(gates), add_gate_to_pyquil_program(output.program, Head(gates)))

\* Circuit.to_pyquil, lines 181-188
to_pyquil(c) == to_pyquil_loop(c.gates, Returned(EmptyProgram))

\* pyquil_circuit += I(n_qubits + i) for i in range(n), lines 1008-1009
RECURSIVE add_identities(_, _, _, _)
add_identities(pyquil_circuit, n_qubits, i, n) ==
    IF i >= n THEN pyquil_circuit
    ELSE add_identities(AddInstruction(pyquil_circuit, PyquilGate("I", <<>>, <<n_qubits + i>>)),
                        n_qubits, i + 1, n)

\* add_ancilla_register_to_circuit(circuit, n_qubits_ancilla_register), lines 995-1011.
\* to_pyquil gives None for a gate outside the catalogs: None += I(k) and len(None)
\* raise TypeError.
add_ancilla_register_to_circuit(c, n_qubits_ancilla_register, heap, oid) ==
    LET extended_circuit == NewCircuit("Unnamed", Len(heap) + 1, oid)
        heap1 == Append(heap, NewInfo)
        n_qubits == Len(c.qubits)
        pyquil_circuit == to_pyquil(c)
    IN
    IF pyquil_circuit.status # "ok" THEN Outcome(pyquil_circuit.status, <<>>, heap1, oid + 1)
    ELSE IF pyquil_circuit.program = <<>>
    THEN Outcome("TypeError", <<>>,
                 IF n_qubits_ancilla_register > 0 THEN heap1
                 ELSE [heap1 EXCEPT ![Len(heap1)].label = "pyquil"],
                 oid + 1)
    ELSE from_pyquil(extended_circuit,
                     add_identities(pyquil_circuit.program[1], n_qubits, 0,
                                    n_qubits_ancilla_register).instructions,
                     heap1, oid + 1)

----------------------------------------------------------------------------
\* pyquil2cirq, lines 640-701

pyquil2cirq_op_map ==
    [X |-> "XPowGate", Y |-> "YPowGate", Z |-> "ZPowGate", T |-> "ZPowGate",
     H |-> "HPowGate", S |-> "ZPowGate", RX |-> "XPowGate", RY |-> "YPowGate",
     RZ |-> "ZPowGate", CNOT |-> "CNotPowGate", SWAP |-> "SwapPowGate",
     CZ |-> "CZPowGate", CPHASE |-> "CZPowGate"]

\* op_map[name] without parameters: the cirq gate constant of that name
pyquil2cirq_constant(name) ==
    CirqGate(pyquil2cirq_op_map[name],
             IF name = "T" THEN 1 ELSE IF name = "S" THEN 2 ELSE 4)

OpQubits(op) == Range(op.qubits)

MomentQubits(moment) == UNION {OpQubits(moment[i]) : i \in 1..Len(moment)}

\* circuit.append(op, strategy=EARLIEST): the moment after the last one that acts
\* on a qubit of op
AppendEarliest(moments, op) ==
    LET busy == {m \in 1..Len(moments) : MomentQubits(moments[m]) \cap OpQubits(op) # {}}
        at == IF busy = {} THEN 1 ELSE MaxOf(busy) + 1
    IN
    IF at > Len(moments) THEN Append(moments, <<op>>)
    ELSE [moments EXCEPT ![at] = Append(@, op)]

Converted(value) == [status |-> "ok", gate |-> "", value |-> <<value>>]

\* an error that does not say which gate it is about
UnsupportedGate_anonymous(gate) == [status |-> "ValueError: not yet supported", gate |-> "", value |-> <<>>]

\* ValueError("Gate {} not yet supported"): the error carries the gate
UnsupportedGate(gate) == [status |-> "ValueError: not yet supported", gate |-> gate, value |-> <<>>]

ConversionError(error) == [status |-> error, gate |-> "", value |-> <<>>]

RECURSIVE pyquil2cirq_loop(_, _)
pyquil2cirq_loop(qprog, circuit_) ==
    IF qprog = <<>> THEN Converted(circuit_)
    ELSE
      LET gate == Head(qprog)
          \* qubits[qubit_map[q.index]]: the grid qubit whose row is the index
          target_qubits == [k \in 1..Len(gate.qubits) |-> GridQubit(gate.qubits[k].index, 0)]
      IN
      IF gate.name \notin DOMAIN pyquil2cirq_op_map THEN UnsupportedGate(gate.name)
      ELSE IF Len(gate.params) = 0
      THEN \* op_map[name](*qubits): a gate class cannot be made from qubits
           IF gate.name \in {"RX", "RY", "RZ", "CPHASE"} THEN ConversionError("TypeError")
           ELSE
           pyquil2cirq_loop(Tail(qprog),
               AppendEarliest(circuit_, CirqOp(pyquil2cirq_constant(gate.name), target_qubits)))
      ELSE IF Len(gate.params) = 1
      THEN \* op_map[name](exponent=angle / pi): a gate constant takes no exponent
           IF gate.name \notin {"RX", "RY", "RZ", "CPHASE"} THEN ConversionError("TypeError")
           ELSE
           pyquil2cirq_loop(Tail(qprog),
               AppendEarliest(circuit_,
                   CirqOp(CirqGate(pyquil2cirq_op_map[gate.name], gate.params[1].val),
                          target_qubits)))
      ELSE ConversionError("ValueError: more than one parameter")

pyquil2cirq(qprog) == pyquil2cirq_loop(qprog, <<>>)

----------------------------------------------------------------------------
\* cirq2pyquil, lines 704-826

\* repr(gate) of the cirq gates that have a name of their own
cirq_repr(gate) ==
    IF gate.global_shift # 0 THEN "cirq." \o gate.type \o "(...)"
    ELSE IF gate.type = "XPowGate" /\ gate.exponent = 4 THEN "cirq.X"
    ELSE IF gate.type = "YPowGate" /\ gate.exponent = 4 THEN "cirq.Y"
    ELSE IF gate.type = "ZPowGate" /\ gate.exponent = 4 THEN "cirq.Z"
    ELSE IF gate.type = "ZPowGate" /\ gate.exponent = 2 THEN "cirq.S"
    ELSE IF gate.type = "ZPowGate" /\ gate.exponent = 1 THEN "cirq.T"
    ELSE IF gate.type = "HPowGate" /\ gate.exponent = 4 THEN "cirq.H"
    ELSE IF gate.type = "CNotPowGate" /\ gate.exponent = 4 THEN "cirq.CNOT"
    ELSE IF gate.type = "SwapPowGate" /\ gate.exponent = 4 THEN "cirq.SWAP"
    ELSE IF gate.type = "CZPowGate" /\ gate.exponent = 4 THEN "cirq.CZ"
    ELSE "(cirq." \o gate.type \o "**e)"

cirq2pyquil_op_repr_map ==
    ("cirq.X" :> "X") @@ ("cirq.Y" :> "Y") @@ ("cirq.Z" :> "Z") @@ ("cirq.T" :> "T") @@
    ("cirq.H" :> "H") @@ ("cirq.S" :> "S") @@ ("cirq.CNOT" :> "CNOT") @@
    ("cirq.SWAP" :> "SWAP") @@ ("cirq.CZ" :> "CZ")

cirq2pyquil_op_type_map ==
    [XPowGate |-> "RX", YPowGate |-> "RY", ZPowGate |-> "RZ", CZPowGate |-> "CPHASE"]

\* cirq.decompose(op) of a PhasedXPowGate (of phase exponent 0.25) and of an HPowGate
cirq_decompose(op) ==
    LET q == op.qubits IN
    IF op.gate.type = "PhasedXPowGate"
    THEN <<CirqOp(CirqGate("ZPowGate", -1), q), CirqOp(CirqGate("XPowGate", op.gate.exponent), q),
           CirqOp(CirqGate("ZPowGate", 1), q)>>
    ELSE <<CirqOp(CirqGate("YPowGate", 1), q), CirqOp(CirqGate("XPowGate", op.gate.exponent), q),
           CirqOp(CirqGate("YPowGate", -1), q)>>

\* a rewriting of XX that rotates the first qubit
XX_ops_rotates_first(op) ==
    LET q1 == <<op.qubits[1]>>  q2 == <<op.qubits[2]>> IN
    <<CirqOp(cirq_H, q1), CirqOp(cirq_H, q2), CirqOp(cirq_CNOT, op.qubits),
      CirqOp(cirq_rz(op.gate.exponent), q1), CirqOp(cirq_CNOT, op.qubits),
      CirqOp(cirq_H, q1), CirqOp(cirq_H, q2)>>

\* the operations an XX, YY or ZZ operation is rewritten into, lines 777-817
XX_ops(op) ==
    LET q1 == <<op.qubits[1]>>  q2 == <<op.qubits[2]>> IN
    <<CirqOp(cirq_H, q1), CirqOp(cirq_H, q2), CirqOp(cirq_CNOT, op.qubits),
      CirqOp(cirq_rz(op.gate.exponent), q2), CirqOp(cirq_CNOT, op.qubits),
      CirqOp(cirq_H, q1), CirqOp(cirq_H, q2)>>

YY_ops(op) ==
    LET q1 == <<op.qubits[1]>>  q2 == <<op.qubits[2]>> IN
    <<CirqOp(CirqGate("ZPowGate", 2), q1), CirqOp(CirqGate("ZPowGate", 2), q2),
      CirqOp(cirq_H, q1), CirqOp(cirq_H, q2), CirqOp(cirq_CNOT, op.qubits),
      CirqOp(cirq_rz(op.gate.exponent), q2), CirqOp(cirq_CNOT, op.qubits),
      CirqOp(cirq_H, q1), CirqOp(cirq_H, q2),
      CirqOp(CirqGate("ZPowGate", -2), q1), CirqOp(CirqGate("ZPowGate", -2), q2)>>

\* a rewriting of ZZ that rotates the first qubit
ZZ_ops_rotates_first(op) ==
    <<CirqOp(cirq_CNOT, op.qubits), CirqOp(cirq_rz(op.gate.exponent), <<op.qubits[1]>>),
      CirqOp(cirq_CNOT, op.qubits)>>

ZZ_ops(op) ==
    <<CirqOp(cirq_CNOT, op.qubits), CirqOp(cirq_rz(op.gate.exponent), <<op.qubits[2]>>),
      CirqOp(cirq_CNOT, op.qubits)>>

\* qubit_key and the rank of a qubit among all qubits sorted by key
KeyLess(a, b) ==
    IF IsLineQubit(a) THEN a.x < b.x
    ELSE a.row < b.row \/ (a.row = b.row /\ a.col < b.col)

cirq2pyquil_qubit_map(all_qubits, q) == Cardinality({o \in all_qubits : KeyLess(o, q)})

\* a program state: the status and the instructions of qprog so far
RECURSIVE add_to_program(_, _, _)
RECURSIVE add_all_to_program(_, _, _)
add_to_program(op, all_qubits, qprog) ==
    LET qubits == [k \in 1..Len(op.qubits) |->
                      [index |-> cirq2pyquil_qubit_map(all_qubits, op.qubits[k])]]
        gate == op.gate
    IN
    IF cirq_repr(gate) \in DOMAIN cirq2pyquil_op_repr_map
    THEN Converted(Append(qprog, [name |-> cirq2pyquil_op_repr_map[cirq_repr(gate)],
                                  params |-> <<>>, qubits |-> qubits]))
    ELSE IF gate.type \in DOMAIN cirq2pyquil_op_type_map
    THEN \* rads = exponent * pi
         Converted(Append(qprog, [name |-> cirq2pyquil_op_type_map[gate.type],
                                  params |-> <<Num(gate.exponent)>>, qubits |-> qubits]))
    ELSE IF gate.type \in {"PhasedXPowGate", "HPowGate"}
    THEN add_all_to_program(cirq_decompose(op), all_qubits, qprog)
    ELSE IF gate.type = "XXPowGate" THEN add_all_to_program(XX_ops(op), all_qubits, qprog)
    ELSE IF gate.type = "YYPowGate" THEN add_all_to_program(YY_ops(op), all_qubits, qprog)
    ELSE IF gate.type = "ZZPowGate" THEN add_all_to_program(ZZ_ops(op), all_qubits, qprog)
    ELSE UnsupportedGate(gate.type)

add_all_to_program(ops, all_qubits, qprog) ==
    IF ops = <<>> THEN Converted(qprog)
    ELSE LET r == add_to_program(Head(ops), all_qubits, qprog) IN
         IF r.status # "ok" THEN r
         ELSE add_all_to_program(Tail(ops), all_qubits, r.value[1])

\* circuit_ is the sequence of moments; first is the qubit next(iter(all_qubits()))
\* happens to give
cirq2pyquil(circuit_, first) ==
    LET all_qubits == UNION {MomentQubits(circuit_[m]) : m \in 1..Len(circuit_)} IN
    IF all_qubits = {} THEN ConversionError("StopIteration")
    ELSE IF \E q \in all_qubits : q.kind # first.kind THEN ConversionError("AttributeError")
    ELSE
      LET r == add_all_to_program(Flatten(circuit_), all_qubits, <<>>) IN
      IF r.status # "ok" THEN r
      ELSE Converted(Program(<<>>, r.value[1]))

----------------------------------------------------------------------------
\* Circuit.to_cirq, lines 190-228

\* Gate.to_cirq(input_cirq_qubits): the cirq gate of the name on the qubits of the
\* list at the indices of the gate, or, without a list, on the qubits the gate's
\* own qubits stand for
Gate_to_cirq(gate, input_cirq_qubits) ==
    LET cirq_gate ==
            IF gate.name = "X" THEN cirq_X
            ELSE IF gate.name = "Z" THEN cirq_Z
            ELSE IF gate.name = "H" THEN cirq_H
            ELSE IF gate.name = "CNOT" THEN cirq_CNOT
            ELSE IF gate.name = "RX" THEN CirqGate("XPowGate", gate.params[1].val)
            ELSE CirqGate(gate.name, 4)
        own == [k \in 1..Len(gate.qubits) |->
                   LET q == gate.qubits[k] IN
                   IF q.info.label = "cirq" /\ q.info.QubitType = "GridQubit"
                   THEN GridQubit(q.info.QubitKey[1], q.info.QubitKey[2])
                   ELSE LineQubit(q.index)]
    IN
    IF input_cirq_qubits = <<>> THEN Converted(CirqOp(cirq_gate, own))
    ELSE IF \E k \in 1..Len(gate.qubits) : gate.qubits[k].index >= Len(input_cirq_qubits[1])
    THEN ConversionError("IndexError")
    ELSE Converted(CirqOp(cirq_gate,
             [k \in 1..Len(gate.qubits) |-> input_cirq_qubits[1][gate.qubits[k].index + 1]]))

RECURSIVE to_cirq_gates(_, _, _)
to_cirq_gates(gates, cirq_qubits, moments) ==
    IF gates = <<>> THEN Converted(moments)
    ELSE LET g == Gate_to_cirq(Head(gates), cirq_qubits) IN
         IF g.status # "ok" THEN g
         ELSE to_cirq_gates(Tail(gates), cirq_qubits, AppendEarliest(moments, g.value[1]))

\* a register that is too short
RegisterTooSmall == ConversionError("Exception: Input qubit register size is not enough")

\* to_cirq without the comparison of lines 216-222
to_cirq_any_register(c, cirq_qubits) == to_cirq_gates(c.gates, cirq_qubits, <<>>)

\* cirq_qubits is an optional list of cirq qubits
to_cirq(c, cirq_qubits) ==
    IF cirq_qubits # <<>> /\ Len(cirq_qubits[1]) < Len(c.qubits) THEN RegisterTooSmall
    ELSE to_cirq_gates(c.gates, cirq_qubits, <<>>)

----------------------------------------------------------------------------
\* Circuit.to_qiskit, lines 230-266

\* an append of the first triple only
qiskit_append_first(qiskit_gate_data, appended) ==
    IF Len(qiskit_gate_data) < 3 THEN appended
    ELSE Append(appended, [instruction |-> qiskit_gate_data[1],
                           qargs |-> qiskit_gate_data[2],
                           cargs |-> qiskit_gate_data[3]])

\* the triples of a list of entries, taken as the loop of lines 260-264 takes them
RECURSIVE qiskit_append(_, _)
qiskit_append(qiskit_gate_data, appended) ==
    IF Len(qiskit_gate_data) < 3 THEN appended
    ELSE qiskit_append(SubSeq(qiskit_gate_data, 4, Len(qiskit_gate_data)),
                       Append(appended, [instruction |-> qiskit_gate_data[1],
                                         qargs |-> qiskit_gate_data[2],
                                         cargs |-> qiskit_gate_data[3]]))

NotMultipleOf3 == ConversionError("ValueError: not a multiple of 3")

\* data[i] is the list gate.to_qiskit(qreg, creg) gives for gate i
RECURSIVE to_qiskit_loop(_, _, _)
to_qiskit_loop(data, i, qiskit_circuit) ==
    IF i > Len(data) THEN Converted(qiskit_circuit)
    ELSE IF Len(data[i]) % 3 # 0 THEN NotMultipleOf3
    ELSE to_qiskit_loop(data, i + 1,
             [qiskit_circuit EXCEPT !.data = qiskit_append(data[i], @)])

to_qiskit(c, data) ==
    LET size == IF c.qubits # <<>> THEN MaxOf(Range(QubitIndexList(c))) + 1 ELSE 0 IN
    to_qiskit_loop(data, 1, [name |-> "circuit", qreg |-> size, creg |-> size, data |-> <<>>])

----------------------------------------------------------------------------
\* conversions/symbolic_expressions: the expression tree builder

\* sympy expressions: atoms (a symbol, a number p / q, the imaginary unit) and
\* Add, Mul and Pow nodes with their args
SympyAtom(kind, name, p, q) == [kind |-> kind, name |-> name, p |-> p, q |-> q, args |-> <<>>]

SympyNode(kind, args) == [kind |-> kind, name |-> "", p |-> 0, q |-> 1, args |-> args]

sympy_Symbol(name) == SympyAtom("Symbol", name, 0, 1)

sympy_Integer(v) == SympyAtom("Integer", "", v, 1)

sympy_Rational(p, q) == SympyAtom("Rational", "", p, q)

sympy_I == SympyAtom("ImaginaryUnit", "", 0, 1)

sympy_Add(args) == SympyNode("Add", args)

sympy_Mul(args) == SympyNode("Mul", args)

sympy_Pow(base, exponent) == SympyNode("Pow", <<base, exponent>>)

\* expression nodes: Symbol(name), a native number (a float or a complex, its
\* parts in eighths), FunctionCall(name, args)
Symbol(name) == [node |-> "Symbol", name |-> name, re |-> 0, im |-> 0, args |-> <<>>]

NativeNumber(re, im) == [node |-> "number", name |-> "", re |-> re, im |-> im, args |-> <<>>]

FunctionCall(name, args) == [node |-> "FunctionCall", name |-> name, re |-> 0, im |-> 0, args |-> args]

\* the float of p / q, in eighths
Float(p, q) == (8 * p) \div q

IsNumber(expr) == expr.kind \in {"Integer", "Rational"}

\* the negation of a term: a product whose coefficient is -1, or a negative literal
IsNegation(expr) ==
    \/ expr.kind = "Mul" /\ Len(expr.args) >= 2 /\ expr.args[1] = sympy_Integer(-1)
    \/ IsNumber(expr) /\ expr.p < 0

\* the term a negation negates
Negated(expr) ==
    IF IsNumber(expr) THEN [expr EXCEPT !.p = -expr.p]
    ELSE IF Len(expr.args) = 2 THEN expr.args[2]
    ELSE sympy_Mul(Tail(expr.args))

IsReciprocal(expr) == expr.kind = "Pow" /\ expr.args[2] = sympy_Integer(-1)

\* looks for the negation in the first child only
negation_in_front(expr) ==
    /\ expr.kind = "Add"
    /\ Len(expr.args) = 2
    /\ IsNegation(expr.args[1])

is_addition_of_negation(expr) ==
    /\ expr.kind = "Add"
    /\ Len(expr.args) = 2
    /\ IsNegation(expr.args[1]) # IsNegation(expr.args[2])

\* takes a power -1 for a reciprocal only when its base is a symbol
reciprocal_of_symbol(expr) ==
    /\ expr.kind = "Mul"
    /\ Len(expr.args) = 2
    /\ IsReciprocal(expr.args[1]) # IsReciprocal(expr.args[2])
    /\ \A k \in 1..2 : IsReciprocal(expr.args[k]) => expr.args[k].args[1].kind = "Symbol"

is_multiplication_by_reciprocal(expr) ==
    /\ expr.kind = "Mul"
    /\ Len(expr.args) = 2
    /\ IsReciprocal(expr.args[1]) # IsReciprocal(expr.args[2])

\* the operation of the function call an Add, Mul or Pow node converts to
operation_of(expr) ==
    IF is_addition_of_negation(expr) THEN "sub"
    ELSE IF is_multiplication_by_reciprocal(expr) THEN "div"
    ELSE IF expr.kind = "Add" THEN "add"
    ELSE IF expr.kind = "Mul" THEN "mul"
    ELSE "pow"

\* the children from the last to the first
operands_backwards(expr) ==
    [k \in 1..Len(expr.args) |-> expr.args[Len(expr.args) + 1 - k]]

\* the expressions the arguments of the function call are converted from:
\* (minuend, subtrahend), (numerator, denominator), or the children in order
operands_of(expr) ==
    IF is_addition_of_negation(expr)
    THEN IF IsNegation(expr.args[2])
         THEN <<expr.args[1], Negated(expr.args[2])>>
         ELSE <<expr.args[2], Negated(expr.args[1])>>
    ELSE IF is_multiplication_by_reciprocal(expr)
    THEN IF IsReciprocal(expr.args[2])
         THEN <<expr.args[1], expr.args[2].args[1]>>
         ELSE <<expr.args[2], expr.args[1].args[1]>>
    ELSE expr.args

RECURSIVE expression_tree_from_sympy(_)
expression_tree_from_sympy(expr) ==
    IF expr.kind = "Symbol" THEN Symbol(expr.name)
    ELSE IF IsNumber(expr) THEN NativeNumber(Float(expr.p, expr.q), 0)
    ELSE IF expr.kind = "ImaginaryUnit" THEN NativeNumber(0, Float(1, 1))
    ELSE LET operands == operands_of(expr) IN
         FunctionCall(operation_of(expr),
             [k \in 1..Len(operands) |-> expression_tree_from_sympy(operands[k])])

----------------------------------------------------------------------------
\* wip/circuit/conversions/qiskit_conversions: gates to and from qiskit operations

\* the gate of the wip package and the qiskit gate class it corresponds to
EQUIVALENT_GATES ==
    {<<"X", "XGate">>, <<"Y", "YGate">>, <<"Z", "ZGate">>, <<"H", "HGate">>,
     <<"I", "IGate">>, <<"T", "TGate">>,
     <<"CNOT", "CXGate">>, <<"CZ", "CZGate">>, <<"SWAP", "SwapGate">>,
     <<"ISWAP", "iSwapGate">>,
     <<"RX", "RXGate">>, <<"RY", "RYGate">>, <<"RZ", "RZGate">>, <<"PHASE", "PhaseGate">>,
     <<"CPHASE", "CPhaseGate">>, <<"XX", "RXXGate">>, <<"YY", "RYYGate">>,
     <<"ZZ", "RZZGate">>}

\* a gate of the wip package: its name, the indices of its qubits, its angles
WipGate(name, qubits, params) == [name |-> name, qubits |-> qubits, params |-> params]

\* qiskit_qubit(index, num_qubits_in_circuit): the qubit at index of a register "q"
qiskit_qubit(index, num_qubits_in_circuit) ==
    [register |-> [name |-> "q", size |-> num_qubits_in_circuit], index |-> index]

\* an angle of qiskit: a number, or a Parameter of the name of the sympy symbol
qiskit_angle(param) ==
    IF IsSymbolic(param) THEN [parameter |-> param.sym, value |-> 0]
    ELSE [parameter |-> "", value |-> param.val]

zquantum_angle(angle) ==
    IF angle.parameter # "" THEN Sym(angle.parameter) ELSE Num(angle.value)

\* convert_to_qiskit(gate, num_qubits_in_circuit): the operation (gate, qargs, cargs)
convert_to_qiskit(gate, num_qubits_in_circuit) ==
    LET pair == CHOOSE e \in EQUIVALENT_GATES : e[1] = gate.name IN
    [gate |-> [class |-> pair[2],
               params |-> [k \in 1..Len(gate.params) |-> qiskit_angle(gate.params[k])]],
     qargs |-> [k \in 1..Len(gate.qubits) |->
                   qiskit_qubit(gate.qubits[k], num_qubits_in_circuit)],
     cargs |-> <<>>]

\* a conversion that lists the qubits by ascending index
convert_from_qiskit_ascending(operation) ==
    LET pair == CHOOSE e \in EQUIVALENT_GATES : e[2] = operation.gate.class
        indices == [k \in 1..Len(operation.qargs) |-> operation.qargs[k].index]
    IN
    WipGate(pair[1],
            IF Len(indices) = 2 /\ indices[1] > indices[2]
            THEN <<indices[2], indices[1]>> ELSE indices,
            [k \in 1..Len(operation.gate.params) |->
                zquantum_angle(operation.gate.params[k])])

\* convert_from_qiskit(operation): the gate of the wip package
convert_from_qiskit(operation) ==
    LET pair == CHOOSE e \in EQUIVALENT_GATES : e[2] = operation.gate.class IN
    WipGate(pair[1],
            [k \in 1..Len(operation.qargs) |-> operation.qargs[k].index],
            [k \in 1..Len(operation.gate.params) |->
                zquantum_angle(operation.gate.params[k])])

\* ControlledGate(target_gate, control): the gate under the control of a qubit
ControlledGate(target_gate, control) == [target_gate |-> target_gate, control |-> control]

\* a conversion that lists the control after the qubits of the target gate
controlled_to_qiskit_control_last(gate, num_qubits_in_circuit) ==
    LET target == convert_to_qiskit(gate.target_gate, num_qubits_in_circuit) IN
    [gate |-> [base_gate |-> target.gate, num_ctrl_qubits |-> 1],
     qargs |-> Append(target.qargs, qiskit_qubit(gate.control, num_qubits_in_circuit)),
     cargs |-> <<>>]

\* convert_to_qiskit of a controlled gate: target.control(1) on the control, then
\* the qubits of the target gate
controlled_to_qiskit(gate, num_qubits_in_circuit) ==
    LET target == convert_to_qiskit(gate.target_gate, num_qubits_in_circuit) IN
    [gate |-> [base_gate |-> target.gate, num_ctrl_qubits |-> 1],
     qargs |-> <<qiskit_qubit(gate.control, num_qubits_in_circuit)>> \o target.qargs,
     cargs |-> <<>>]

\* convert_from_qiskit of a controlled operation
controlled_from_qiskit(operation) ==
    ControlledGate(
        convert_from_qiskit([gate |-> operation.gate.base_gate,
                             qargs |-> Tail(operation.qargs), cargs |-> <<>>]),
        Head(operation.qargs).index)

----------------------------------------------------------------------------
\* Native inputs

PyquilInstructions ==
    {PyquilGate("X", <<>>, <<0>>),
     PyquilGate("CNOT", <<>>, <<1, 0>>),
     PyquilGate("RX", <<Sym("theta")>>, <<1>>)}

PyquilPrograms == SeqsUpTo(PyquilInstructions, MaxInstr)

\* moments: the operations of a moment act on disjoint qubits
CirqMoments ==
    {<<CirqOp(cirq_X, <<LineQubit(0)>>), CirqOp(CirqGate("XPowGate", 2), <<LineQubit(1)>>)>>,
     <<CirqOp(cirq_CNOT, <<LineQubit(1), LineQubit(0)>>)>>,
     <<CirqOp(cirq_X, <<GridQubit(0, 1)>>)>>,
     << >>}

CirqCircuits == SeqsUpTo(CirqMoments, MaxInstr)

QiskitQubit(register, index) == [register |-> register, index |-> index]

QiskitInstruction(name, params) == [name |-> name, params |-> params]

\* entries of QuantumCircuit.data: (instruction, qargs, cargs)
QiskitData ==
    {<<QiskitInstruction("x", <<>>), <<QiskitQubit("q", 0)>>, <<>>>>,
     <<QiskitInstruction("cx", <<>>), <<QiskitQubit("q", 1), QiskitQubit("q", 0)>>, <<>>>>,
     <<QiskitInstruction("x", <<>>), <<QiskitQubit("r", 0)>>, <<>>>>,
     <<QiskitInstruction("cx", <<>>), <<QiskitQubit("q", 0), QiskitQubit("r", 0)>>, <<>>>>,
     <<QiskitInstruction("barrier", <<>>), <<QiskitQubit("q", 1)>>, <<>>>>}

QiskitCircuits ==
    {[name |-> n, data |-> d] : n \in {"circuit0"}, d \in SeqsUpTo(QiskitData, MaxInstr)}

\* serialized circuits as read from a file: the info is a dictionary of its own
GateDict(name, indices, params) ==
    [schema |-> SCHEMA_VERSION \o "-gate", name |-> name, qubits |-> indices, params |-> params]

NumberEntry(v) == [form |-> "number", text |-> "", val |-> v]

StringEntry(t) == [form |-> "string", text |-> t, val |-> 0]

GateDicts ==
    {GateDict("CNOT", <<0, 1>>, <<>>),
     GateDict("RX", <<0>>, <<NumberEntry(1)>>),
     GateDict("RX", <<1>>, <<StringEntry("theta")>>)}

\* the qubit entries written for a circuit imported from pyquil: one entry for each
\* index, in the order of first use
RECURSIVE FirstUse(_, _)
FirstUse(indices, acc) ==
    IF indices = <<>> THEN acc
    ELSE FirstUse(Tail(indices),
                  IF Head(indices) \in Range(acc) THEN acc ELSE Append(acc, Head(indices)))

QubitEntries(gateDicts) ==
    LET used == FirstUse(Flatten([i \in 1..Len(gateDicts) |-> gateDicts[i].qubits]), <<>>) IN
    [i \in 1..Len(used) |->
        [index |-> used[i], info |-> QubitInfo("pyquil", "", NoKey, "", -1)]]

\* info of a dictionary given to from_dict is the label to put in the heap
CircuitDicts ==
    {[schema |-> SCHEMA_VERSION \o "-circuit", name |-> n, gates |-> g,
      qubits |-> QubitEntries(g), info |-> "custom"] :
        n \in {"circ"}, g \in SeqsUpTo(GateDicts, MaxInstr)}

\* the other operand of == and +: how it is made
Operands ==
    {[kind |-> "pyquil", input |-> <<PyquilGate("X", <<>>, <<0>>)>>],
     [kind |-> "pyquil", input |-> <<PyquilGate("CNOT", <<>>, <<1, 0>>),
                                      PyquilGate("RX", <<Sym("theta")>>, <<1>>)>>],
     [kind |-> "qiskit",
      input |-> [name |-> "Unnamed",
                 data |-> <<<<QiskitInstruction("x", <<>>), <<QiskitQubit("q", 0)>>, <<>>>>,
                            <<QiskitInstruction("x", <<>>), <<QiskitQubit("r", 0)>>, <<>>>>>>]],
     [kind |-> "dict",
      input |-> [schema |-> SCHEMA_VERSION \o "-circuit", name |-> "Unnamed",
                 gates |-> <<GateDict("X", <<0>>, <<>>)>>,
                 qubits |-> QubitEntries(<<GateDict("X", <<0>>, <<>>)>>),
                 info |-> "custom"]]}

\* objects given to the constructor, other than those of FromPyquil, FromCirq and
\* FromQiskit alone
InputObjects ==
    {None,
     InputObject("pyquil.quilbase.Gate", <<PyquilGate("CNOT", <<>>, <<1, 0>>)>>),
     InputObject("pyquil.Program", <<PyquilGate("X", <<>>, <<0>>)>>),
     InputObject("cirq.Circuit", <<<<CirqOp(cirq_X, <<LineQubit(0)>>)>>>>),
     InputObject("qiskit.QuantumCircuit",
                 <<[name |-> "circuit0",
                    data |-> <<<<QiskitInstruction("x", <<>>), <<QiskitQubit("q", 0)>>, <<>>>>>>]>>),
     InputObject("str", <<>>),
     InputObject("list", <<PyquilGate("X", <<>>, <<0>>)>>),
     InputObject("zquantum.core.circuit.Circuit", <<>>)}

\* the gates of the conversion tests: every gate of the catalog on qubits and
\* pairs of qubits of the tests, with numeric and symbolic angles
WipAngles == {Num(0), Num(2), Num(4), Sym("theta")}

WipGates ==
    {WipGate(n, <<q>>, <<>>) : n \in {"X", "Y", "Z", "H", "I", "T"}, q \in {0, 1, 4}}
    \cup {WipGate(n, qq, <<>>) :
              n \in {"CNOT", "CZ", "SWAP", "ISWAP"}, qq \in {<<0, 1>>, <<3, 4>>, <<10, 1>>}}
    \cup {WipGate(n, <<q>>, <<a>>) :
              n \in {"RX", "RY", "RZ", "PHASE"}, q \in {0, 1, 4}, a \in WipAngles}
    \cup {WipGate(n, qq, <<a>>) :
              n \in {"CPHASE", "XX", "YY", "ZZ"},
              qq \in {<<0, 1>>, <<3, 4>>, <<10, 1>>}, a \in WipAngles}

\* controlled gates of the conversion tests, and some more
ControlledGates ==
    {ControlledGate(g, c) :
         g \in {WipGate("X", <<0>>, <<>>), WipGate("RX", <<1>>, <<Sym("theta")>>),
                WipGate("SWAP", <<0, 2>>, <<>>), WipGate("CNOT", <<4, 0>>, <<>>),
                WipGate("CPHASE", <<2, 0>>, <<Num(2)>>)},
         c \in {1, 3, 5}} \ {ControlledGate(WipGate("RX", <<1>>, <<Sym("theta")>>), 1)}

\* children of the add and mul nodes handed to the builder
SympyChildren ==
    {sympy_Symbol("x"), sympy_Symbol("y"), sympy_Integer(1), sympy_Integer(-2),
     sympy_Rational(3, 8),
     sympy_Mul(<<sympy_Integer(-1), sympy_Symbol("x")>>),
     sympy_Mul(<<sympy_Integer(-1), sympy_Symbol("y")>>),
     sympy_Mul(<<sympy_Integer(-1), sympy_Pow(sympy_Symbol("y"), sympy_Integer(-1))>>),
     sympy_Pow(sympy_Symbol("y"), sympy_Integer(-1)),
     sympy_Pow(sympy_Add(<<sympy_Symbol("z"), sympy_Integer(1)>>), sympy_Integer(-1)),
     sympy_Add(<<sympy_Symbol("z"), sympy_Integer(1)>>)}

SympyExpressions ==
    SympyChildren \cup {sympy_I, sympy_Symbol("theta")}
    \cup {SympyNode(kind, args) :
              kind \in {"Add", "Mul"},
              args \in UNION {[1..n -> SympyChildren] : n \in 2..MaxArgs}}

\* qubits and lists of seen qubits handed to qubit_in_list of from_cirq
CirqQubits == {LineQubit(0), LineQubit(1), GridQubit(0, 0), GridQubit(0, 1)}

\* target qubit lists of to_cirq: none, and lists of line qubits
CirqQubitLists ==
    {<<>>} \cup {<<[i \in 1..n |-> LineQubit(i - 1)]>> : n \in 0..3}

\* entry k of the list a gate gives to_qiskit: an instruction, its qubits and its
\* classical bits, in turn
GateDataEntry(gate, k) ==
    [role |-> IF k % 3 = 1 THEN "instruction" ELSE IF k % 3 = 2 THEN "qargs" ELSE "cargs",
     gate |-> gate.name, part |-> (k + 2) \div 3,
     bits |-> IF k % 3 = 2 THEN GateIndices(gate) ELSE <<>>]

\* Gate.to_qiskit(qreg, creg): a list of n entries
GateData(gate, n) == [k \in 1..n |-> GateDataEntry(gate, k)]

\* circuits exported to qiskit
QiskitExportGateDicts ==
    {GateDict("X", <<0>>, <<>>),
     GateDict("CNOT", <<0, 1>>, <<>>),
     GateDict("ZXZ", <<2>>, <<NumberEntry(1), NumberEntry(2)>>)}

QiskitExportDicts ==
    {[schema |-> SCHEMA_VERSION \o "-circuit", name |-> "circ", gates |-> g,
      qubits |-> QubitEntries(g), info |-> "custom"] :
        g \in SeqsUpTo(QiskitExportGateDicts, MaxInstr)}

CircuitNames == {"Unnamed", "c1"}

SymbolMaps ==
    {<< >>, <<<<"theta", 3>>>>, <<<<"theta", 3>>, <<"phi", 5>>>>}

\* gates of circuits that are exported to pyquil
ExportGateDicts ==
    {GateDict("X", <<0>>, <<>>),
     GateDict("FOO", <<0>>, <<>>),
     GateDict("ZXZ", <<0>>, <<NumberEntry(1), NumberEntry(2)>>),
     GateDict("RH", <<1>>, <<NumberEntry(1)>>),
     GateDict("XX", <<0, 1>>, <<NumberEntry(1)>>),
     GateDict("YY", <<0, 1>>, <<NumberEntry(1)>>),
     GateDict("ZZ", <<1, 0>>, <<NumberEntry(1)>>),
     GateDict("U1ex", <<0, 1>>, <<NumberEntry(1), NumberEntry(2)>>),
     GateDict("U1ex", <<1, 0>>, <<NumberEntry(3), StringEntry("theta")>>),
     GateDict("U2ex", <<0, 1>>, <<NumberEntry(1)>>)}

ExportDicts ==
    {[schema |-> SCHEMA_VERSION \o "-circuit", name |-> "circ", gates |-> g,
      qubits |-> QubitEntries(g), info |-> "custom"] :
        g \in SeqsUpTo(ExportGateDicts, MaxInstr)}

\* circuits an ancilla register is added to: qubits 0 and 1 with a gate on each,
\* qubits 0 and 2, qubit 2 alone, and qubits 0 and 1 with no gate on qubit 1
AncillaDicts ==
    {[schema |-> SCHEMA_VERSION \o "-circuit", name |-> "circ", gates |-> c[1],
      qubits |-> [i \in 1..Len(c[2]) |->
                     [index |-> c[2][i], info |-> QubitInfo("pyquil", "", NoKey, "", -1)]],
      info |-> "custom"] :
        c \in {<<<<GateDict("X", <<0>>, <<>>), GateDict("CNOT", <<0, 1>>, <<>>)>>, <<0, 1>>>>,
               <<<<GateDict("X", <<0>>, <<>>), GateDict("X", <<2>>, <<>>)>>, <<0, 2>>>>,
               <<<<GateDict("X", <<2>>, <<>>)>>, <<2>>>>,
               <<<<GateDict("X", <<0>>, <<>>)>>, <<0, 1>>>>}}

\* circuits with symbols as parameters
SymbolicGateDicts ==
    {GateDict("RX", <<0>>, <<StringEntry("theta")>>),
     GateDict("RX", <<1>>, <<StringEntry("phi")>>),
     GateDict("U1ex", <<0, 1>>, <<StringEntry("phi"), StringEntry("theta")>>)}

SymbolicDicts ==
    {[schema |-> SCHEMA_VERSION \o "-circuit", name |-> "circ", gates |-> g,
      qubits |-> QubitEntries(g), info |-> "custom"] :
        g \in SeqsUpTo(SymbolicGateDicts, MaxInstr)}

ExportGates ==
    {Gate_from_dict(d, 1) :
         d \in ExportGateDicts \cup {GateDict("MEASURE", <<1>>, <<>>),
                                   GateDict("BARRIER", <<0>>, <<>>)}}

\* programs a gate is added to: empty, and with a definition made before
ExportPrograms ==
    {EmptyProgram,
     Program(<<DefGate("U1ex", "u1ex_unitary", <<"alpha", "beta">>)>>,
             <<Application("U1ex", <<Num(1), Num(2)>>, <<0, 1>>)>>),
     Program(<<DefGate("U2ex", "u2ex_unitary", <<"alpha">>)>>, <<>>),
     Program(<<DefGate("ZXZ", "zxz_unitary", <<"beta", "gamma">>)>>,
             <<Application("ZXZ", <<Num(1), Num(2)>>, <<0>>)>>)}

\* programs and circuits given to the converters
ConvertPyquilInstructions ==
    {PyquilGate("X", <<>>, <<0>>),
     PyquilGate("CNOT", <<>>, <<1, 0>>),
     PyquilGate("RX", <<Num(2)>>, <<1>>),
     PyquilGate("RZ", <<Num(1)>>, <<0>>),
     PyquilGate("CPHASE", <<Num(2)>>, <<0, 1>>),
     PyquilGate("PHASE", <<Num(4)>>, <<0>>)}

ConvertPyquilPrograms == SeqsUpTo(ConvertPyquilInstructions, MaxInstr)

ConvertCirqMoments ==
    {<<CirqOp(cirq_X, <<LineQubit(0)>>), CirqOp(CirqGate("XPowGate", 2), <<LineQubit(2)>>)>>,
     <<CirqOp(CirqGate("XXPowGate", 2), <<LineQubit(0), LineQubit(1)>>)>>,
     <<CirqOp(CirqGate("YYPowGate", 1), <<LineQubit(1), LineQubit(0)>>)>>,
     <<CirqOp(CirqGate("ZZPowGate", 3), <<LineQubit(0), LineQubit(1)>>)>>,
     <<CirqOp(CirqGate("ISwapPowGate", 4), <<LineQubit(0), LineQubit(1)>>)>>,
     <<CirqOp(CirqGate("CZPowGate", 2), <<LineQubit(1), LineQubit(2)>>)>>,
     <<CirqOp(CirqGate("PhasedXPowGate", 2), <<LineQubit(1)>>)>>,
     <<CirqOp(CirqGate("HPowGate", 2), <<GridQubit(0, 1)>>)>>}

ConvertCirqCircuits == SeqsUpTo(ConvertCirqMoments, MaxInstr)

----------------------------------------------------------------------------
\* The record of the last call

NoLast ==
    [op |-> "init", status |-> "ok", self |-> <<>>, other |-> <<>>, result |-> <<>>,
     flag |-> FALSE, map |-> <<>>, native |-> <<>>, heapBefore |-> <<>>,
     gate |-> <<>>, prog |-> <<>>, export |-> ReturnedNone, conv |-> Converted(<<>>),
     name |-> ""]

Init ==
    /\ circuit = <<>>
    /\ imported = FALSE
    /\ infos = <<>>
    /\ nextOid = 1
    /\ nops = 0
    /\ last = NoLast

\* Circuit(input_object, name): __init__, lines 43-79
Construct(name, Import(_, _, _), kind, native) ==
    /\ circuit = <<>>
    /\ last.op = "init"
    /\ \E out \in {Import(NewCircuit(name, Len(infos) + 1, nextOid),
                          Append(infos, NewInfo), nextOid + 1)} :
            /\ circuit' = out.circuit
            /\ imported' = (out.status = "ok")
            /\ infos' = out.infos
            /\ nextOid' = out.nextOid
            /\ nops' = 0
            /\ last' = [NoLast EXCEPT !.op = kind, !.status = out.status,
                                      !.result = out.circuit, !.native = <<native>>]

FromPyquil ==
    \E p \in PyquilPrograms :
        Construct("Unnamed", LAMBDA c, h, o : from_pyquil(c, p, h, o), "from_pyquil", p)

FromCirq ==
    \E p \in CirqCircuits :
        Construct("Unnamed", LAMBDA c, h, o : from_cirq(c, p, h, o), "from_cirq", p)

FromQiskit ==
    \E p \in QiskitCircuits :
        Construct("Unnamed", LAMBDA c, h, o : from_qiskit(c, p, h, o), "from_qiskit", p)

\* Circuit.from_dict(dictionary) / load_circuit
FromDict ==
    \E d \in CircuitDicts :
        \E out \in {from_dict([d EXCEPT !.info = Len(infos) + 1],
                               Append(infos, [label |-> d.info]), nextOid)} :
            /\ circuit = <<>>
            /\ last.op = "init"
            /\ circuit' = out.circuit
            /\ imported' = FALSE
            /\ infos' = out.infos
            /\ nextOid' = out.nextOid
            /\ nops' = 0
            /\ last' = [NoLast EXCEPT !.op = "from_dict", !.result = out.circuit,
                                      !.native = <<d>>]

\* Circuit(input_object, name)
FromObject ==
    \E input_object \in InputObjects, name \in CircuitNames :
        \E out \in {Circuit_init(input_object, name, infos, nextOid)} :
            /\ circuit = <<>>
            /\ last.op = "init"
            /\ circuit' = out.circuit
            /\ imported' = (out.status = "ok" /\ input_object # None)
            /\ infos' = out.infos
            /\ nextOid' = out.nextOid
            /\ nops' = 0
            /\ last' = [NoLast EXCEPT !.op = "Circuit", !.status = out.status,
                                      !.result = out.circuit, !.native = <<input_object>>,
                                      !.name = name]

\* the other operand, made by a constructor of its own
BuildOperand(r, heap, oid) ==
    LET h == Append(heap, IF r.kind = "dict" THEN [label |-> r.input.info] ELSE NewInfo)
        c0 == NewCircuit("Unnamed", Len(h), oid)
    IN
    IF r.kind = "pyquil" THEN from_pyquil(c0, r.input, h, oid + 1)
    ELSE IF r.kind = "cirq" THEN from_cirq(c0, r.input, h, oid + 1)
    ELSE IF r.kind = "qiskit" THEN from_qiskit(c0, r.input, h, oid + 1)
    ELSE from_dict([r.input EXCEPT !.info = Len(h)], h, oid)

\* circuit == other
\* the last call only read the circuit: a call after it finds the circuit as the
\* call that built or changed it left it, and gives what it gives after that call
IsQuery == last.op \in {"eq", "roundtrip", "to_cirq", "set_info_label"}

Eq ==
    /\ circuit # <<>>
    /\ ~IsQuery
    /\ \E r \in Operands :
            \E o \in {BuildOperand(r, infos, nextOid)} :
                last' = [NoLast EXCEPT !.op = "eq", !.self = circuit, !.other = o.circuit,
                                       !.flag = Circuit_eq(circuit[1], o.circuit[1]),
                                       !.heapBefore = o.infos]
    /\ UNCHANGED <<circuit, imported, infos, nextOid, nops>>

\* Circuit.from_dict(circuit.to_dict()) == circuit
RoundTrip ==
    /\ circuit # <<>>
    /\ ~IsQuery
    /\ \E out \in {from_dict(to_dict(circuit[1], TRUE), infos, nextOid)} :
           last' = [NoLast EXCEPT !.op = "roundtrip", !.self = circuit, !.result = out.circuit,
                                  !.flag = Circuit_eq(out.circuit[1], circuit[1]),
                                  !.heapBefore = infos]
    /\ UNCHANGED <<circuit, imported, infos, nextOid, nops>>

\* circuit = circuit + other
Add ==
    /\ circuit # <<>>
    /\ ~IsQuery
    /\ nops < MaxOps
    /\ \E r \in Operands :
        \E o \in {BuildOperand(r, infos, nextOid)} :
        \E order \in Orders(add_qubit_indices(circuit[1], o.circuit[1])) :
        \E out \in {Circuit_add(circuit[1], o.circuit[1], order, o.infos, o.nextOid)} :
                /\ circuit' = out.circuit
                /\ imported' = (imported /\ r.kind # "dict")
                /\ infos' = out.infos
                /\ nextOid' = out.nextOid
                /\ nops' = nops + 1
                /\ last' = [NoLast EXCEPT !.op = "add", !.self = circuit, !.other = o.circuit,
                                          !.result = out.circuit, !.heapBefore = o.infos]

\* circuit = circuit.evaluate(symbols_map)
Evaluate ==
    /\ circuit # <<>>
    /\ ~IsQuery
    /\ nops < MaxOps
    /\ \E symbols_map \in SymbolMaps :
        \E out \in {evaluate(circuit[1], symbols_map, infos, nextOid)} :
            /\ circuit' = out.circuit
            /\ infos' = out.infos
            /\ nextOid' = out.nextOid
            /\ nops' = nops + 1
            /\ last' = [NoLast EXCEPT !.op = "evaluate", !.self = circuit, !.map = symbols_map,
                                      !.result = out.circuit,
                                      !.flag = evaluate_warns(circuit[1], symbols_map),
                                      !.heapBefore = infos]
    /\ UNCHANGED imported

\* c.info["label"] = label or c2.info["label"] = label after c2 = c.evaluate(m):
\* a write into the info dictionary that the circuit holds
SetInfoLabel ==
    /\ last.op = "evaluate"
    /\ \E via \in {last.self[1], last.result[1]}, label \in {"pyquil", "changed"} :
           /\ infos' = [infos EXCEPT ![via.info].label = label]
           /\ last' = [last EXCEPT !.op = "set_info_label", !.name = label,
                                   !.flag = (via = last.self[1])]
    /\ UNCHANGED <<circuit, imported, nextOid, nops>>

\* qubit_in_list(qubit, qubitlist) of from_cirq, on its own
CirqQubitInList ==
    /\ circuit = <<>>
    /\ last.op = "init"
    /\ \E qubit \in CirqQubits, qubitlist \in SeqsUpTo(CirqQubits, MaxInstr) :
           last' = [NoLast EXCEPT !.op = "qubit_in_list",
                                  !.native = <<<<qubit>>, qubitlist>>,
                                  !.conv = cirq_qubit_in_list(qubit, qubitlist, 1)]
    /\ UNCHANGED <<circuit, imported, infos, nextOid, nops>>

\* circuit.to_cirq(cirq_qubits)
ToCirq ==
    /\ circuit # <<>>
    /\ ~IsQuery
    /\ \E cirq_qubits \in CirqQubitLists :
           last' = [NoLast EXCEPT !.op = "to_cirq", !.self = circuit,
                                  !.native = cirq_qubits,
                                  !.conv = to_cirq(circuit[1], cirq_qubits)]
    /\ UNCHANGED <<circuit, imported, infos, nextOid, nops>>

Next ==
    \/ FromPyquil
    \/ FromCirq
    \/ FromQiskit
    \/ FromDict
    \/ FromObject
    \/ Eq
    \/ RoundTrip
    \/ Add
    \/ Evaluate
    \/ ToCirq
    \/ CirqQubitInList
    \/ SetInfoLabel

Spec == Init /\ [][Next]_vars

\* load_circuit of a circuit that is going to be exported
LoadCircuit ==
    \E d \in ExportDicts \cup AncillaDicts \cup SymbolicDicts :
        \E out \in {from_dict([d EXCEPT !.info = Len(infos) + 1],
                               Append(infos, [label |-> d.info]), nextOid)} :
            /\ circuit = <<>>
            /\ last.op = "init"
            /\ circuit' = out.circuit
            /\ imported' = FALSE
            /\ infos' = out.infos
            /\ nextOid' = out.nextOid
            /\ nops' = 0
            /\ last' = [NoLast EXCEPT !.op = "load_circuit", !.result = out.circuit,
                                      !.native = <<d>>]

\* circuit.to_pyquil()
ToPyquil ==
    /\ circuit # <<>>
    /\ last' = [NoLast EXCEPT !.op = "to_pyquil", !.self = circuit,
                              !.export = to_pyquil(circuit[1])]
    /\ UNCHANGED <<circuit, imported, infos, nextOid, nops>>

\* add_gate_to_pyquil_program(pyquil_program, gate)
AddGate ==
    \E prog \in ExportPrograms, gate \in ExportGates :
        /\ circuit = <<>>
        /\ last.op = "init"
        /\ last' = [NoLast EXCEPT !.op = "add_gate", !.gate = <<gate>>, !.prog = <<prog>>,
                                  !.export = add_gate_to_pyquil_program(<<prog>>, gate)]
        /\ UNCHANGED <<circuit, imported, infos, nextOid, nops>>

\* add_ancilla_register_to_circuit(circuit, n) of a loaded circuit without gates
\* that need a definition
AddAncillaRegister ==
    \E n \in 0..MaxAncilla :
        /\ circuit # <<>>
        /\ last.op = "load_circuit"
        /\ \A i \in 1..Len(circuit[1].gates) : circuit[1].gates[i].name \notin UNIQUE_GATES
        /\ \E out \in {add_ancilla_register_to_circuit(circuit[1], n, infos, nextOid)} :
               /\ infos' = out.infos
               /\ nextOid' = out.nextOid
               /\ last' = [NoLast EXCEPT !.op = "add_ancilla", !.status = out.status,
                                         !.self = circuit, !.result = out.circuit,
                                         !.native = <<n>>]
        /\ UNCHANGED <<circuit, imported, nops>>

\* circuit.symbolic_params of a loaded circuit
SymbolicParams ==
    /\ circuit # <<>>
    /\ last.op = "load_circuit"
    /\ last' = [NoLast EXCEPT !.op = "symbolic_params", !.self = circuit,
                              !.map = symbolic_params(circuit[1])]
    /\ UNCHANGED <<circuit, imported, infos, nextOid, nops>>

NextExport ==
    \/ LoadCircuit
    \/ ToPyquil
    \/ AddGate
    \/ AddAncillaRegister
    \/ SymbolicParams

SpecExport == Init /\ [][NextExport]_vars

\* load_circuit of a circuit that is going to be exported to qiskit
LoadQiskitCircuit ==
    \E d \in QiskitExportDicts :
        \E out \in {from_dict([d EXCEPT !.info = Len(infos) + 1],
                               Append(infos, [label |-> d.info]), nextOid)} :
            /\ circuit = <<>>
            /\ last.op = "init"
            /\ circuit' = out.circuit
            /\ imported' = FALSE
            /\ infos' = out.infos
            /\ nextOid' = out.nextOid
            /\ nops' = 0
            /\ last' = [NoLast EXCEPT !.op = "load_circuit", !.result = out.circuit,
                                      !.native = <<d>>]

\* circuit.to_qiskit(); the gates give lists of any length up to MaxGateData
ToQiskit ==
    /\ circuit # <<>>
    /\ last.op = "load_circuit"
    /\ \E lengths \in [1..Len(circuit[1].gates) -> 0..MaxGateData] :
        \E data \in {[i \in 1..Len(circuit[1].gates) |->
                          GateData(circuit[1].gates[i], lengths[i])]} :
           last' = [NoLast EXCEPT !.op = "to_qiskit", !.self = circuit, !.native = data,
                                  !.conv = to_qiskit(circuit[1], data)]
    /\ UNCHANGED <<circuit, imported, infos, nextOid, nops>>

NextQiskit ==
    \/ LoadQiskitCircuit
    \/ ToQiskit

SpecQiskit == Init /\ [][NextQiskit]_vars

\* expression_tree_from_sympy(expr)
ExpressionTreeFromSympy ==
    /\ last.op = "init"
    /\ \E expr \in SympyExpressions :
           last' = [NoLast EXCEPT !.op = "expression_tree_from_sympy", !.native = <<expr>>,
                                  !.result = <<expression_tree_from_sympy(expr)>>]
    /\ UNCHANGED <<circuit, imported, infos, nextOid, nops>>

\* is_addition_of_negation(expr)
IsAdditionOfNegation ==
    /\ last.op = "init"
    /\ \E expr \in SympyExpressions :
           last' = [NoLast EXCEPT !.op = "is_addition_of_negation", !.native = <<expr>>,
                                  !.flag = is_addition_of_negation(expr)]
    /\ UNCHANGED <<circuit, imported, infos, nextOid, nops>>

\* is_multiplication_by_reciprocal(expr)
IsMultiplicationByReciprocal ==
    /\ last.op = "init"
    /\ \E expr \in SympyExpressions :
           last' = [NoLast EXCEPT !.op = "is_multiplication_by_reciprocal",
                                  !.native = <<expr>>,
                                  !.flag = is_multiplication_by_reciprocal(expr)]
    /\ UNCHANGED <<circuit, imported, infos, nextOid, nops>>

NextExpr ==
    \/ ExpressionTreeFromSympy
    \/ IsAdditionOfNegation
    \/ IsMultiplicationByReciprocal

SpecExpr == Init /\ [][NextExpr]_vars

\* convert_to_qiskit(gate, max(gate.qubits) + 1)
ConvertToQiskit ==
    /\ last.op = "init"
    /\ \E gate \in WipGates :
           last' = [NoLast EXCEPT !.op = "convert_to_qiskit", !.native = <<gate>>,
                                  !.conv = convert_to_qiskit(gate, MaxOf(Range(gate.qubits)) + 1)]
    /\ UNCHANGED <<circuit, imported, infos, nextOid, nops>>

\* math.floor(math.log2(d)) of an integer d >= 1
RECURSIVE floor_log2(_)
floor_log2(d) == IF d < 2 THEN 0 ELSE 1 + floor_log2(d \div 2)

\* a check of the number of rows only
n_qubits_for_matrix_rows_only(matrix_shape) ==
    IF matrix_shape[1] <= 0 THEN [status |-> "ValueError", value |-> <<>>]
    ELSE LET n_qubits == floor_log2(matrix_shape[1]) IN
         IF 2 ^ n_qubits # matrix_shape[1]
         THEN [status |-> "ValueError", value |-> <<>>]
         ELSE [status |-> "ok", value |-> <<n_qubits>>]

\* _n_qubits_for_matrix(matrix_shape), wip/circuit/_gates.py lines 32-37;
\* math.log2(0) raises ValueError (math domain error)
n_qubits_for_matrix(matrix_shape) ==
    IF matrix_shape[1] <= 0 THEN [status |-> "ValueError", value |-> <<>>]
    ELSE LET n_qubits == floor_log2(matrix_shape[1]) IN
         IF 2 ^ n_qubits # matrix_shape[1] \/ 2 ^ n_qubits # matrix_shape[2]
         THEN [status |-> "ValueError", value |-> <<>>]
         ELSE [status |-> "ok", value |-> <<n_qubits>>]

\* _n_qubits_for_matrix(matrix.shape) of a matrix with rows x cols entries
NQubitsForMatrix ==
    /\ last.op = "init"
    /\ \E rows \in 0..MaxDim, cols \in 0..MaxDim :
           \E out \in {n_qubits_for_matrix(<<rows, cols>>)} :
               last' = [NoLast EXCEPT !.op = "n_qubits_for_matrix", !.status = out.status,
                                      !.native = <<rows, cols>>, !.result = out.value]
    /\ UNCHANGED <<circuit, imported, infos, nextOid, nops>>

\* convert_from_qiskit(operation), of the operation just converted to
ConvertFromQiskit ==
    /\ last.op = "convert_to_qiskit"
    /\ last' = [last EXCEPT !.op = "convert_from_qiskit",
                            !.result = <<convert_from_qiskit(last.conv)>>]
    /\ UNCHANGED <<circuit, imported, infos, nextOid, nops>>

\* convert_to_qiskit(controlled_gate, max(controlled_gate.qubits) + 1)
ConvertControlledToQiskit ==
    /\ last.op = "init"
    /\ \E gate \in ControlledGates :
           last' = [NoLast EXCEPT
                       !.op = "controlled_to_qiskit", !.native = <<gate>>,
                       !.conv = controlled_to_qiskit(gate,
                                    MaxOf(Range(gate.target_gate.qubits) \cup {gate.control}) + 1)]
    /\ UNCHANGED <<circuit, imported, infos, nextOid, nops>>

\* convert_from_qiskit(operation), of the controlled operation just converted to
ConvertControlledFromQiskit ==
    /\ last.op = "controlled_to_qiskit"
    /\ last' = [last EXCEPT !.op = "controlled_from_qiskit",
                            !.result = <<controlled_from_qiskit(last.conv)>>]
    /\ UNCHANGED <<circuit, imported, infos, nextOid, nops>>

NextWip ==
    \/ ConvertToQiskit
    \/ ConvertFromQiskit
    \/ ConvertControlledToQiskit
    \/ ConvertControlledFromQiskit
    \/ NQubitsForMatrix

SpecWip == Init /\ [][NextWip]_vars

\* pyquil2cirq(qprog)
Pyquil2Cirq ==
    \E qprog \in ConvertPyquilPrograms :
        /\ last.op = "init"
        /\ last' = [NoLast EXCEPT !.op = "pyquil2cirq", !.native = <<qprog>>,
                                  !.conv = pyquil2cirq(qprog)]
        /\ UNCHANGED <<circuit, imported, infos, nextOid, nops>>

\* cirq2pyquil(circuit)
Cirq2Pyquil ==
    \E c \in ConvertCirqCircuits :
        \E first \in IF Flatten(c) = <<>> THEN {LineQubit(0)}
                     ELSE UNION {MomentQubits(c[m]) : m \in 1..Len(c)} :
            /\ last.op = "init"
            /\ last' = [NoLast EXCEPT !.op = "cirq2pyquil", !.native = <<c>>,
                                      !.conv = cirq2pyquil(c, first)]
            /\ UNCHANGED <<circuit, imported, infos, nextOid, nops>>

NextConvert ==
    \/ Pyquil2Cirq
    \/ Cirq2Pyquil

SpecConvert == Init /\ [][NextConvert]_vars

----------------------------------------------------------------------------
\* Properties

IsImport == last.op \in {"from_pyquil", "from_cirq", "from_qiskit"}

IndexSet(c) == {c.qubits[i].index : i \in 1..Len(c.qubits)}

AllCommonNumeric(c) ==
    \A i \in 1..Len(c.gates) :
        /\ c.gates[i].name \in COMMON_GATES
        /\ \A k \in 1..Len(c.gates[i].params) : ~IsSymbolic(c.gates[i].params[k])

\* same name, same qubit sequence by string form, same gate sequence
SameCircuit(a, b) ==
    /\ a.name = b.name
    /\ Len(a.qubits) = Len(b.qubits)
    /\ \A i \in 1..Len(a.qubits) : i <= Len(b.qubits) => Qubit_str(a.qubits[i]) = Qubit_str(b.qubits[i])
    /\ Len(a.gates) = Len(b.gates)
    /\ \A i \in 1..Len(a.gates) : i <= Len(b.gates) => Gate_eq(a.gates[i], b.gates[i])

\* C1: a circuit of COMMON gates with numeric parameters is equal, under Circuit
\* equality, to the circuit read back from its dictionary: the comparison returns
\* True and name, qubit sequence and gate sequence are the same.
C1_RoundTrip ==
    (last.op = "roundtrip" /\ AllCommonNumeric(last.self[1])) =>
        /\ last.flag
        /\ SameCircuit(last.result[1], last.self[1])

C1_Witness ==
    /\ last.op = "roundtrip"
    /\ AllCommonNumeric(last.self[1])
    /\ last.self[1].name # "Unnamed"
    /\ Len(last.self[1].gates) >= 2
    /\ \E i \in 1..Len(last.self[1].gates) : last.self[1].gates[i].params # <<>>
    /\ last.flag

\* C2: == returns True exactly when the names are equal, the qubit lists have the
\* same length and pairwise equal string forms, and the gate lists have the same
\* length and pairwise equal gates; otherwise it returns False.  The info
\* dictionaries play no part.
C2_EqIsStructural ==
    last.op = "eq" => (last.flag <=> SameCircuit(last.self[1], last.other[1]))

C2_Witness ==
    /\ last.op = "eq"
    /\ last.flag
    /\ Len(last.self[1].gates) >= 1
    /\ last.heapBefore[last.self[1].info] # last.heapBefore[last.other[1].info]

\* C3: after an import every qubit a gate refers to is the one Qubit of the qubit
\* list that has its index: the list holds exactly one Qubit of that index, and it
\* is that object.
C3_OneQubitPerPhysicalQubit ==
    (IsImport /\ last.result # <<>>) =>
        LET c == last.result[1] IN
        \A g \in 1..Len(c.gates) : \A k \in 1..Len(c.gates[g].qubits) :
            LET q == c.gates[g].qubits[k]
                same == {i \in 1..Len(c.qubits) : c.qubits[i].index = q.index}
            IN /\ Cardinality(same) = 1
               /\ \A i \in same : c.qubits[i].oid = q.oid

\* C4: in a circuit made by an import followed by concatenations and evaluations,
\* every qubit index a gate refers to is the index of an element of the qubit list,
\* and no two elements of the qubit list have the same index.
C4_QubitsDeduplicated ==
    (imported /\ circuit # <<>>) =>
        LET c == circuit[1] IN
        /\ \A g \in 1..Len(c.gates) : \A k \in 1..Len(c.gates[g].qubits) :
               c.gates[g].qubits[k].index \in IndexSet(c)
        /\ \A i, j \in 1..Len(c.qubits) : c.qubits[i].index = c.qubits[j].index => i = j

\* C5: a + b is a new circuit whose gates are the gates of a followed by the gates
\* of b, whose qubits have exactly the indices of a and of b, one Qubit for each
\* index; a and b are left as they were.
C5_Add ==
    last.op = "add" =>
        LET a == last.self[1]  b == last.other[1]  c == last.result[1] IN
        /\ c.gates = a.gates \o b.gates
        /\ IndexSet(c) = IndexSet(a) \cup IndexSet(b)
        /\ Len(c.qubits) = Cardinality(IndexSet(a) \cup IndexSet(b))
        /\ c.info \notin {a.info, b.info}
        /\ c.qubits_id \notin {a.qubits_id, b.qubits_id}
        /\ infos[a.info] = last.heapBefore[a.info]
        /\ infos[b.info] = last.heapBefore[b.info]

C5_Witness ==
    /\ last.op = "add"
    /\ last.self[1].gates # <<>>
    /\ last.other[1].gates # <<>>
    /\ IndexSet(last.self[1]) \cap IndexSet(last.other[1]) # {}
    /\ IndexSet(last.other[1]) \ IndexSet(last.self[1]) # {}
    /\ Len(last.result[1].gates) >= 3

\* the parameter a gate evaluation gives: the value of a symbol of the map, the
\* parameter itself otherwise
Substituted(p, symbols_map) ==
    IF \E i \in 1..Len(symbols_map) : p.sym # "" /\ symbols_map[i][1] = p.sym
    THEN LET first == MinOf({i \in 1..Len(symbols_map) : symbols_map[i][1] = p.sym})
         IN Num(symbols_map[first][2])
    ELSE p

\* C6: evaluate returns a circuit with the name and the qubits of the original
\* and, gate by gate in the same order, the original gate with the symbols of the
\* map replaced; the original circuit is left as it was.
C6_Evaluate ==
    last.op = "evaluate" =>
        LET a == last.self[1]  c == last.result[1] IN
        /\ c.name = a.name
        /\ c.qubits = a.qubits
        /\ Len(c.gates) = Len(a.gates)
        /\ \A i \in 1..Len(a.gates) :
              /\ c.gates[i].name = a.gates[i].name
              /\ c.gates[i].qubits = a.gates[i].qubits
              /\ Len(c.gates[i].params) = Len(a.gates[i].params)
              /\ \A k \in 1..Len(a.gates[i].params) :
                    c.gates[i].params[k] = Substituted(a.gates[i].params[k], last.map)
        /\ infos = last.heapBefore

C6_Witness ==
    /\ last.op = "evaluate"
    /\ last.self[1].name # "Unnamed"
    /\ \E i \in 1..Len(last.self[1].gates) :
          /\ last.self[1].gates[i].params = <<Sym("theta")>>
          /\ last.result[1].gates[i].params = <<Num(3)>>

\* C7: evaluate warns exactly when the map holds a symbol that is not a symbolic
\* parameter of the circuit, and it returns the evaluated circuit also then.
C7_Warning ==
    last.op = "evaluate" =>
        LET a == last.self[1]
            used == {a.gates[i].params[k].sym :
                        <<i, k>> \in {<<i, k>> \in (1..Len(a.gates)) \X (1..2) :
                                           k <= Len(a.gates[i].params)}} \ {""}
        IN
        /\ last.flag <=> (\E i \in 1..Len(last.map) : last.map[i][1] \notin used)
        /\ last.status = "ok"
        /\ last.result # <<>>

C7_Witness ==
    /\ last.op = "evaluate"
    /\ last.flag
    /\ \E i \in 1..Len(last.self[1].gates) :
          /\ last.self[1].gates[i].params = <<Sym("theta")>>
          /\ last.result[1].gates[i].params = <<Num(3)>>

\* C8: when to_pyquil returns a program for a circuit with two or more U1ex gates,
\* the program has exactly one definition named U1ex, and the instruction of every
\* U1ex gate is the application of U1ex to its parameters and qubits, at the
\* position of the gate.
C8_U1exDefinedOnce ==
    (/\ last.op = "to_pyquil"
     /\ Cardinality({i \in 1..Len(last.self[1].gates) : last.self[1].gates[i].name = "U1ex"}) >= 2
     /\ last.export.status = "ok"
     /\ last.export.program # <<>>) =>
        LET gates == last.self[1].gates
            prog == last.export.program[1]
        IN
        /\ Cardinality({d \in 1..Len(prog.defined_gates) : prog.defined_gates[d].name = "U1ex"}) = 1
        /\ Len(prog.instructions) = Len(gates)
        /\ \A i \in 1..Len(gates) :
              gates[i].name = "U1ex" =>
                  prog.instructions[i] = Application("U1ex", gates[i].params, GateIndices(gates[i]))

C8_Witness ==
    /\ last.op = "to_pyquil"
    /\ Len(last.self[1].gates) >= 2
    /\ last.self[1].gates[1].name = "U1ex"
    /\ last.self[1].gates[2].name = "U1ex"
    /\ last.self[1].gates[1] # last.self[1].gates[2]
    /\ last.export.status = "ok"
    /\ last.export.program # <<>>
    /\ Len(last.export.program[1].instructions) >= 2

\* C9: add_gate_to_pyquil_program of a gate of the UNIQUE catalog returns a
\* program: the definitions are those of the program it was given, with one of the
\* name of the gate added when there was none, and the instructions are those of
\* the program it was given followed by the application of the gate.
C9_UniqueGateExported ==
    (last.op = "add_gate" /\ last.gate[1].name \in UNIQUE_GATES) =>
        /\ last.export.status = "ok"
        /\ last.export.program # <<>>
        /\ LET gate == last.gate[1]
               old == last.prog[1]
               new == last.export.program[1]
           IN
           /\ IF gate_already_defined(old, gate.name)
              THEN new.defined_gates = old.defined_gates
              ELSE /\ Len(new.defined_gates) = Len(old.defined_gates) + 1
                   /\ SubSeq(new.defined_gates, 1, Len(old.defined_gates)) = old.defined_gates
                   /\ new.defined_gates[Len(new.defined_gates)].name = gate.name
           /\ new.instructions =
                  Append(old.instructions, Application(gate.name, gate.params, GateIndices(gate)))

IsUnsupported(instruction) ==
    IF last.op = "pyquil2cirq"
    THEN instruction.name \notin DOMAIN pyquil2cirq_op_map
    ELSE /\ cirq_repr(instruction.gate) \notin DOMAIN cirq2pyquil_op_repr_map
         /\ instruction.gate.type \notin DOMAIN cirq2pyquil_op_type_map
         /\ instruction.gate.type \notin
                {"PhasedXPowGate", "HPowGate", "XXPowGate", "YYPowGate", "ZZPowGate"}

ConvertedInstructions ==
    IF last.op = "pyquil2cirq" THEN last.native[1] ELSE Flatten(last.native[1])

\* C10: a conversion by pyquil2cirq or cirq2pyquil of a program or circuit that has
\* an instruction whose gate has neither a mapping nor a decomposition returns
\* nothing and fails; when the converter comes to the instruction (the qubits of a
\* cirq circuit are all of one kind) the failure is the error "not yet supported",
\* which carries the name or type of the first such gate.
C10_UnsupportedGate ==
    (/\ last.op \in {"pyquil2cirq", "cirq2pyquil"}
     /\ \E i \in 1..Len(ConvertedInstructions) : IsUnsupported(ConvertedInstructions[i])) =>
        LET instrs == ConvertedInstructions
            at == MinOf({i \in 1..Len(instrs) : IsUnsupported(instrs[i])})
            qubits == UNION {Range(instrs[i].qubits) : i \in 1..Len(instrs)}
        IN
        /\ last.conv.status # "ok"
        /\ last.conv.value = <<>>
        /\ (last.op = "pyquil2cirq" \/ \A q1, q2 \in qubits : q1.kind = q2.kind) =>
              /\ last.conv.status = "ValueError: not yet supported"
              /\ last.conv.gate = (IF last.op = "pyquil2cirq" THEN instrs[at].name
                                   ELSE instrs[at].gate.type)

C10_Witness ==
    /\ last.op = "cirq2pyquil"
    /\ Len(ConvertedInstructions) >= 2
    /\ ~IsUnsupported(ConvertedInstructions[1])
    /\ IsUnsupported(ConvertedInstructions[2])
    /\ last.conv.status = "ValueError: not yet supported"
    /\ last.conv.gate = "ISwapPowGate"

\* the error the export is to fail with for a gate of no catalog
UnsupportedGateError(name) == [status |-> "UnsupportedGateError: " \o name, program |-> <<>>]

\* C11: to_pyquil of a circuit that has a gate whose name is in neither catalog
\* fails with the unsupported-gate error that carries the name of the first such
\* gate; it returns neither a program nor nothing.
C11_UnknownGateRejected ==
    (/\ last.op = "to_pyquil"
     /\ \E i \in 1..Len(last.self[1].gates) :
            last.self[1].gates[i].name \notin COMMON_GATES \cup UNIQUE_GATES) =>
        LET gates == last.self[1].gates
            at == MinOf({i \in 1..Len(gates) : gates[i].name \notin COMMON_GATES \cup UNIQUE_GATES})
        IN last.export = UnsupportedGateError(gates[at].name)

SupportedInputTypes ==
    {"pyquil.Program", "pyquil.quilbase.Gate", "cirq.Circuit", "qiskit.QuantumCircuit"}

\* C12: Circuit(input_object, name) fails with TypeError and makes no circuit when
\* input_object is not None and is no pyquil Program, pyquil Gate, cirq Circuit or
\* qiskit QuantumCircuit; with None it makes the circuit of the given name that
\* has no gates, no qubits and the label None.
C12_Constructor ==
    last.op = "Circuit" =>
        LET input_object == last.native[1] IN
        /\ (input_object # None /\ input_object.type \notin SupportedInputTypes) =>
              /\ last.status = "TypeError"
              /\ last.result = <<>>
              /\ circuit = <<>>
        /\ input_object = None =>
              /\ last.status = "ok"
              /\ circuit # <<>>
              /\ circuit[1].name = last.name
              /\ circuit[1].gates = <<>>
              /\ circuit[1].qubits = <<>>
              /\ infos[circuit[1].info] = [label |-> "None"]

C12_Witness ==
    /\ last.op = "Circuit"
    /\ last.native[1].type = "list"
    /\ last.native[1].value # <<>>
    /\ last.status = "TypeError"
    /\ last.name = "c1"

\* C13: to_cirq with a list of target qubits that is shorter than the qubit list
\* of the circuit fails with the error of the register size and gives no cirq
\* circuit; with a list at least as long this error is not raised.
C13_RegisterCapacity ==
    (last.op = "to_cirq" /\ last.native # <<>>) =>
        IF Len(last.native[1]) < Len(last.self[1].qubits)
        THEN last.conv = RegisterTooSmall /\ last.conv.value = <<>>
        ELSE last.conv.status # RegisterTooSmall.status

C13_Witness ==
    /\ last.op = "to_cirq"
    /\ last.native # <<>>
    /\ Len(last.native[1]) = 1
    /\ Len(last.self[1].qubits) = 2
    /\ last.self[1].gates # <<>>
    /\ last.conv = RegisterTooSmall

RECURSIVE TriplesOf(_)
TriplesOf(entries) ==
    IF entries = <<>> THEN <<>>
    ELSE <<[instruction |-> entries[1], qargs |-> entries[2], cargs |-> entries[3]]>>
         \o TriplesOf(SubSeq(entries, 4, Len(entries)))

\* C14: to_qiskit fails with the error of the multiple of 3 when the data list of
\* a gate has a length that is no multiple of 3; otherwise the operations appended
\* are the consecutive triples of the data lists, gate after gate and in list
\* order, N/3 of them for a list of length N.
C14_GateDataTriples ==
    last.op = "to_qiskit" =>
        LET data == last.native IN
        IF \E i \in 1..Len(data) : Len(data[i]) % 3 # 0
        THEN last.conv = NotMultipleOf3 /\ last.conv.value = <<>>
        ELSE /\ last.conv.status = "ok"
             /\ last.conv.value[1].data = TriplesOf(Flatten(data))
             /\ Len(last.conv.value[1].data) * 3 = Len(Flatten(data))

C14_Witness ==
    /\ last.op = "to_qiskit"
    /\ Len(last.native) = 2
    /\ Len(last.native[1]) = 6
    /\ Len(last.native[2]) = 3
    /\ last.conv.status = "ok"
    /\ Len(last.conv.value[1].data) = 3

SameCirqQubit(a, b) ==
    \/ IsGridQubit(a) /\ IsGridQubit(b) /\ a.row = b.row /\ a.col = b.col
    \/ IsLineQubit(a) /\ IsLineQubit(b) /\ a.x = b.x

NativeOperands ==
    LET native == last.native[1] IN
    IF last.op = "from_pyquil"
    THEN [i \in 1..Len(native) |->
             [k \in 1..Len(native[i].qubits) |-> native[i].qubits[k].index]]
    ELSE IF last.op = "from_cirq"
    THEN LET ops == Flatten(native) IN
         [i \in 1..Len(ops) |-> [k \in 1..Len(ops[i].qubits) |-> ops[i].qubits[k].x]]
    ELSE LET data == SelectSeq(native.data, LAMBDA d : d[1].name # "barrier") IN
         [i \in 1..Len(data) |-> [k \in 1..Len(data[i][2]) |-> data[i][2][k].index]]

\* C16: a successful import gives one canonical gate per native instruction, in
\* program order (cirq: moment by moment, operations in order), and the qubit list
\* of each gate has the operands of its instruction, as many and in their order.
C16_ProgramOrder ==
    (IsImport /\ last.status = "ok") =>
        LET gates == last.result[1].gates IN
        /\ Len(gates) = Len(NativeOperands)
        /\ \A i \in 1..Len(gates) : GateIndices(gates[i]) = NativeOperands[i]
        /\ last.op = "from_pyquil" =>
               \A i \in 1..Len(gates) : gates[i].name = last.native[1][i].name

C16_Witness ==
    /\ last.op = "from_pyquil"
    /\ last.status = "ok"
    /\ Len(last.result[1].gates) = 2
    /\ last.result[1].gates[1].name = "X"
    /\ last.result[1].gates[2].name = "CNOT"
    /\ GateIndices(last.result[1].gates[2]) = <<1, 0>>

sym_x == sympy_Symbol("x")

sym_y == sympy_Symbol("y")

Minus(expr) == sympy_Mul(<<sympy_Integer(-1), expr>>)

Inverse(expr) == sympy_Pow(expr, sympy_Integer(-1))

\* x - y, x - 1/y and 1 - x, as sympy holds them
Subtractions ==
    {sympy_Add(<<sym_x, Minus(sym_y)>>),
     sympy_Add(<<sym_x, Minus(Inverse(sym_y))>>),
     sympy_Add(<<sympy_Integer(1), Minus(sym_x)>>)}

C18_Division ==
    LET expr == last.native[1]
        reciprocals == IF expr.kind = "Mul"
                       THEN {k \in 1..Len(expr.args) : IsReciprocal(expr.args[k])}
                       ELSE {}
    IN
    /\ (last.op = "is_multiplication_by_reciprocal" /\ expr.kind = "Mul") =>
           (last.flag <=> (Len(expr.args) = 2 /\ Cardinality(reciprocals) = 1))
    /\ (last.op = "expression_tree_from_sympy" /\ expr.kind = "Mul") =>
        /\ expr = sympy_Mul(<<sym_x, Inverse(sympy_Add(<<sympy_Symbol("z"), sympy_Integer(1)>>))>>) =>
               last.result[1] =
                   FunctionCall("div", <<Symbol("x"),
                       FunctionCall("add", <<Symbol("z"), NativeNumber(8, 0)>>)>>)
        /\ (Len(expr.args) = 2 /\ Cardinality(reciprocals) = 1) =>
               \E k \in reciprocals :
                   /\ last.result[1].name = "div"
                   /\ Len(last.result[1].args) = 2
                   /\ last.result[1].args[1] = expression_tree_from_sympy(expr.args[3 - k])
                   /\ last.result[1].args[2] = expression_tree_from_sympy(expr.args[k].args[1])
        /\ (reciprocals = {} \/ Len(expr.args) - Cardinality(reciprocals) >= 2) =>
               last.result[1].name = "mul"

C18_Witness ==
    /\ last.op = "expression_tree_from_sympy"
    /\ last.native[1] = sympy_Mul(<<sym_x, sym_y, Inverse(sym_y)>>)
    /\ last.result[1].name = "mul"
    /\ Len(last.result[1].args) = 3

\* C19: an add node without a negated child and a mul node without a reciprocal
\* child convert to FunctionCall(add, children) and FunctionCall(mul, children):
\* as many arguments as children, each the conversion of the child at its
\* position, never sub or div and never a simplified or evaluated value.
C19_PlainSumsAndProducts ==
    LET expr == last.native[1]
        plain == \/ /\ expr.kind = "Add"
                    /\ \/ \A k \in 1..Len(expr.args) : ~IsNegation(expr.args[k])
                       \/ Len(expr.args) >= 3
                 \/ /\ expr.kind = "Mul"
                    /\ \A k \in 1..Len(expr.args) : ~IsReciprocal(expr.args[k])
    IN
    /\ (last.op = "is_addition_of_negation" /\ plain) => ~last.flag
    /\ (last.op = "is_multiplication_by_reciprocal" /\ plain) => ~last.flag
    /\ (last.op = "expression_tree_from_sympy" /\ plain) =>
        /\ last.result[1].node = "FunctionCall"
        /\ last.result[1].name = (IF expr.kind = "Add" THEN "add" ELSE "mul")
        /\ Len(last.result[1].args) = Len(expr.args)
        /\ \A k \in 1..Len(expr.args) :
               last.result[1].args[k] = expression_tree_from_sympy(expr.args[k])
        /\ expr = sympy_Add(<<sym_x, sympy_Integer(1), sympy_Rational(3, 8)>>) =>
               last.result[1] = FunctionCall("add",
                   <<Symbol("x"), NativeNumber(8, 0), NativeNumber(3, 0)>>)

C19_Witness ==
    /\ last.op = "expression_tree_from_sympy"
    /\ last.native[1] = sympy_Mul(<<sym_x, sym_y, sympy_Rational(3, 8)>>)
    /\ last.result[1] =
           FunctionCall("mul", <<Symbol("x"), Symbol("y"), NativeNumber(3, 0)>>)

\* C20: for every gate of the catalog shared with qiskit, on any qubits and with
\* a numeric or a symbolic angle, convert_from_qiskit gives back the gate that
\* convert_to_qiskit converted: the same gate, on the same qubit indices in the
\* same order.
C20_QiskitRoundTrip ==
    /\ last.op \in {"convert_to_qiskit", "convert_from_qiskit"} =>
           /\ last.native[1].name \in {e[1] : e \in EQUIVALENT_GATES}
           /\ [k \in 1..Len(last.conv.qargs) |-> last.conv.qargs[k].index]
                  = last.native[1].qubits
    /\ last.op = "convert_from_qiskit" =>
           /\ last.result[1] = last.native[1]
           /\ last.result[1].qubits = last.native[1].qubits

C20_Witness ==
    /\ last.op = "convert_from_qiskit"
    /\ last.native[1] = WipGate("CPHASE", <<10, 1>>, <<Sym("theta")>>)
    /\ last.conv.gate.class = "CPhaseGate"
    /\ last.conv.qargs = <<qiskit_qubit(10, 11), qiskit_qubit(1, 11)>>
    /\ last.result[1].qubits = <<10, 1>>

C21_ControlledGate ==
    /\ last.op \in {"controlled_to_qiskit", "controlled_from_qiskit"} =>
           /\ last.conv.gate.num_ctrl_qubits = 1
           /\ [k \in 1..Len(last.conv.qargs) |-> last.conv.qargs[k].index]
                  = <<last.native[1].control>> \o last.native[1].target_gate.qubits
    /\ last.op = "controlled_from_qiskit" => last.result[1] = last.native[1]

C21_Witness ==
    /\ last.op = "controlled_from_qiskit"
    /\ last.native[1] = ControlledGate(WipGate("SWAP", <<0, 2>>, <<>>), 1)
    /\ last.conv.gate.base_gate.class = "SwapGate"
    /\ last.conv.qargs = <<qiskit_qubit(1, 3), qiskit_qubit(0, 3), qiskit_qubit(2, 3)>>

\* the native qubits of the instructions of an import, instruction after instruction
NativeQubits(emitting) ==
    LET native == last.native[1] IN
    IF last.op = "from_pyquil" THEN [i \in 1..Len(native) |-> native[i].qubits]
    ELSE IF last.op = "from_cirq"
    THEN LET ops == Flatten(native) IN [i \in 1..Len(ops) |-> ops[i].qubits]
    ELSE LET data == IF emitting
                     THEN SelectSeq(native.data, LAMBDA d : d[1].name # "barrier")
                     ELSE native.data
         IN [i \in 1..Len(data) |-> data[i][2]]

\* the elements of a sequence in the order of their first occurrence
RECURSIVE FirstOccurrences(_, _)
FirstOccurrences(seq, acc) ==
    IF seq = <<>> THEN acc
    ELSE FirstOccurrences(Tail(seq),
             IF Head(seq) \in Range(acc) THEN acc ELSE Append(acc, Head(seq)))

\* C23: an import makes one canonical Qubit for each native qubit, at its first
\* occurrence, so that the qubit list follows the order of first occurrence; every
\* occurrence of a native qubit in an instruction puts into the qubit list of the
\* gate the Qubit object made for that native qubit, and no other.
C23_SameQubitObject ==
    (IsImport /\ last.status = "ok") =>
        LET c == last.result[1]
            first == FirstOccurrences(Flatten(NativeQubits(FALSE)), <<>>)
            nat == Flatten(NativeQubits(TRUE))
            can == Flatten([i \in 1..Len(c.gates) |-> c.gates[i].qubits])
        IN
        /\ Len(c.qubits) = Len(first)
        /\ \A i, j \in 1..Len(c.qubits) : c.qubits[i].oid = c.qubits[j].oid => i = j
        /\ Len(can) = Len(nat)
        /\ \A k \in 1..Len(can) :
               \E i \in 1..Len(first) : first[i] = nat[k] /\ c.qubits[i].oid = can[k].oid

\* C24: the circuit evaluate returns holds the info dictionary and the qubit list
\* of the original, not copies: a label written into the info of either circuit
\* is the label read from the info of the other.
C24_SharedInfo ==
    /\ last.op \in {"evaluate", "set_info_label"} =>
           /\ last.result[1].info = last.self[1].info
           /\ last.result[1].qubits_id = last.self[1].qubits_id
    /\ last.op = "set_info_label" =>
           /\ infos[last.self[1].info].label = last.name
           /\ infos[last.result[1].info].label = last.name

C24_Witness ==
    /\ last.op = "set_info_label"
    /\ last.name = "changed"
    /\ ~last.flag
    /\ last.heapBefore[last.self[1].info].label # "changed"
    /\ infos[last.self[1].info].label = "changed"

\* a pyquil instruction on qubit indices
Instr(name, params, indices) ==
    [name |-> name, params |-> params,
     qubits |-> [k \in 1..Len(indices) |-> [index |-> indices[k]]]]

\* the operations of the circuit cirq2pyquil converted, and the number of
\* instructions each of them gives
ConvertedOps == Flatten(last.native[1])

InstructionCount(op) ==
    IF op.gate.type = "XXPowGate" THEN 7
    ELSE IF op.gate.type = "YYPowGate" THEN 11
    ELSE IF op.gate.type = "ZZPowGate" THEN 3
    ELSE IF op.gate.type \in {"PhasedXPowGate", "HPowGate"} /\ op.gate.exponent # 4 THEN 3
    ELSE 1

RECURSIVE InstructionsBefore(_)
InstructionsBefore(i) ==
    IF i = 1 THEN 0 ELSE InstructionsBefore(i - 1) + InstructionCount(ConvertedOps[i - 1])

\* the instructions the program has for operation i of the circuit
InstructionsOf(i) ==
    SubSeq(last.conv.value[1].instructions, InstructionsBefore(i) + 1,
           InstructionsBefore(i) + InstructionCount(ConvertedOps[i]))

\* the pyquil index of operand k of operation i: the rank of the qubit among the
\* qubits of the circuit
IndexOf(i, k) ==
    cirq2pyquil_qubit_map(UNION {Range(ConvertedOps[j].qubits) : j \in 1..Len(ConvertedOps)},
                          ConvertedOps[i].qubits[k])

IsConverted == last.op = "cirq2pyquil" /\ last.conv.status = "ok"

\* C25: cirq2pyquil gives for an XX(theta) operation on (q1, q2) the instructions
\* H q1, H q2, CNOT q1 q2, RZ(theta) q2, CNOT q1 q2, H q1, H q2, in this order, and
\* no other instruction.
C25_XXDecomposition ==
    IsConverted =>
        /\ Len(last.conv.value[1].instructions)
               = InstructionsBefore(Len(ConvertedOps) + 1)
        /\ \A i \in 1..Len(ConvertedOps) :
               ConvertedOps[i].gate.type = "XXPowGate" =>
                   LET q1 == IndexOf(i, 1)  q2 == IndexOf(i, 2)
                       theta == Num(ConvertedOps[i].gate.exponent)
                   IN InstructionsOf(i) =
                          <<Instr("H", <<>>, <<q1>>), Instr("H", <<>>, <<q2>>),
                            Instr("CNOT", <<>>, <<q1, q2>>), Instr("RZ", <<theta>>, <<q2>>),
                            Instr("CNOT", <<>>, <<q1, q2>>),
                            Instr("H", <<>>, <<q1>>), Instr("H", <<>>, <<q2>>)>>

C25_Witness ==
    /\ IsConverted
    /\ Len(ConvertedOps) = 2
    /\ ConvertedOps[1].gate.type = "CZPowGate"
    /\ ConvertedOps[2].gate.type = "XXPowGate"
    /\ Len(last.conv.value[1].instructions) = 8
    /\ last.conv.value[1].instructions[5] = Instr("RZ", <<Num(2)>>, <<1>>)

\* C26: cirq2pyquil gives for a YY(theta) operation on (q1, q2) the instructions of
\* Z^-0.5 on q1 and on q2 first, then H q1, H q2, CNOT q1 q2, RZ(theta) q2,
\* CNOT q1 q2, H q1, H q2, and the instructions of Z^0.5 on q1 and on q2 last.
C26_YYDecomposition ==
    IsConverted =>
        \A i \in 1..Len(ConvertedOps) :
            ConvertedOps[i].gate.type = "YYPowGate" =>
                LET q1 == IndexOf(i, 1)  q2 == IndexOf(i, 2)
                    theta == Num(ConvertedOps[i].gate.exponent)
                IN InstructionsOf(i) =
                       <<Instr("RZ", <<Num(-2)>>, <<q1>>), Instr("RZ", <<Num(-2)>>, <<q2>>),
                         Instr("H", <<>>, <<q1>>), Instr("H", <<>>, <<q2>>),
                         Instr("CNOT", <<>>, <<q1, q2>>), Instr("RZ", <<theta>>, <<q2>>),
                         Instr("CNOT", <<>>, <<q1, q2>>),
                         Instr("H", <<>>, <<q1>>), Instr("H", <<>>, <<q2>>),
                         Instr("S", <<>>, <<q1>>), Instr("S", <<>>, <<q2>>)>>

\* C27: cirq2pyquil gives for a ZZ(theta) operation on (q1, q2) the instructions
\* CNOT q1 q2, RZ(theta) q2, CNOT q1 q2, in this order and no other; the
\* conversion of the operation ends.
C27_ZZDecomposition ==
    /\ IsConverted =>
           \A i \in 1..Len(ConvertedOps) :
               ConvertedOps[i].gate.type = "ZZPowGate" =>
                   LET q1 == IndexOf(i, 1)  q2 == IndexOf(i, 2)
                       theta == Num(ConvertedOps[i].gate.exponent)
                   IN InstructionsOf(i) =
                          <<Instr("CNOT", <<>>, <<q1, q2>>), Instr("RZ", <<theta>>, <<q2>>),
                            Instr("CNOT", <<>>, <<q1, q2>>)>>
    /\ (/\ last.op = "cirq2pyquil"
        /\ \A i \in 1..Len(ConvertedOps) : ConvertedOps[i].gate.type = "ZZPowGate"
        /\ ConvertedOps # <<>>) =>
           /\ last.conv.status = "ok"
           /\ Len(last.conv.value[1].instructions) = 3 * Len(ConvertedOps)

C27_Witness ==
    /\ IsConverted
    /\ Len(ConvertedOps) = 2
    /\ ConvertedOps[1].gate.type = "ZZPowGate"
    /\ ConvertedOps[2].gate.type = "ZZPowGate"
    /\ last.conv.value[1].instructions[5] = Instr("RZ", <<Num(3)>>, <<1>>)

\* the qubit indices of a circuit
QubitIndices(c) == {c.qubits[i].index : i \in 1..Len(c.qubits)}

\* C28: add_ancilla_register_to_circuit(circuit, n) returns a circuit with the
\* gates of the input in order followed by n identity gates, whose qubits are the
\* qubits of the input and exactly n more: len(result.qubits) is
\* len(circuit.qubits) + n, for every circuit of common gates.
C28_AncillaRegister ==
    (/\ last.op = "add_ancilla"
     /\ \A i \in 1..Len(last.self[1].gates) : last.self[1].gates[i].name \in COMMON_GATES) =>
        /\ last.status = "ok"
        /\ LET input == last.self[1]
               result == last.result[1]
               n == last.native[1]
               m == Len(input.gates)
           IN /\ Len(result.gates) = m + n
              /\ \A i \in 1..m : Gate_eq(result.gates[i], input.gates[i])
              /\ \A i \in (m + 1)..(m + n) : result.gates[i].name = "I"
              /\ QubitIndices(input) \subseteq QubitIndices(result)
              /\ Cardinality(QubitIndices(result) \ QubitIndices(input)) = n
              /\ Len(result.qubits) = Len(input.qubits) + n

\* the symbols among the parameters of a gate
SymbolsOf(gate) == {p.sym : p \in {q \in Range(gate.params) : IsSymbolic(q)}}

\* the first gate of the circuit that has the symbol as a parameter
FirstGateWith(c, symbol) ==
    MinOf({i \in 1..Len(c.gates) : symbol \in SymbolsOf(c.gates[i])})

\* C29: Circuit.symbolic_params has every symbol that is a parameter of a gate of
\* the circuit exactly once and nothing else, in the order in which the gates of
\* the circuit first use them.
C29_SymbolicParams ==
    last.op = "symbolic_params" =>
        LET c == last.self[1]
            params == last.map
        IN /\ Range(params) = UNION {SymbolsOf(c.gates[i]) : i \in 1..Len(c.gates)}
           /\ Cardinality(Range(params)) = Len(params)
           /\ \A i, j \in 1..Len(params) :
                  i < j => FirstGateWith(c, params[i]) <= FirstGateWith(c, params[j])

C29_Witness ==
    /\ last.op = "symbolic_params"
    /\ Len(last.self[1].gates) = 2
    /\ SymbolsOf(last.self[1].gates[1]) = {"theta"}
    /\ SymbolsOf(last.self[1].gates[2]) = {"phi", "theta"}
    /\ last.map = <<"theta", "phi">>

\* C30: _n_qubits_for_matrix(shape) returns N when the shape is (2^N, 2^N) for an
\* N >= 0 and raises ValueError for every other shape, so an accepted matrix has
\* 2^N rows and columns for the returned N.
C30_MatrixDimension ==
    last.op = "n_qubits_for_matrix" =>
        LET shape == last.native
            exponents == {N \in 0..MaxDim : shape = <<2 ^ N, 2 ^ N>>}
        IN /\ exponents # {} => last.status = "ok" /\ last.result \in {<<N>> : N \in exponents}
           /\ exponents = {} => last.status = "ValueError" /\ last.result = <<>>

C30_Witness ==
    /\ last.op = "n_qubits_for_matrix"
    /\ last.native = <<4, 4>>
    /\ last.status = "ok"
    /\ last.result = <<2>>

====
